---- MODULE Spec2Model ----
(***************************************************************************)
(* Verification model of the plant-identification client:                  *)
(*   - cacheService.js : the IndexedDB-backed TTL cache (DurableCache),    *)
(*   - imageUtils.js   : the hooks usePlantsData / useClassification /     *)
(*                       useQA (RequestCoordinator),                       *)
(*   - PlantChatbot.js : the chat state machine (ConversationOrchestrator).*)
(* Optional JavaScript values (undefined / null) are sets with at most one *)
(* element; strings that the code decomposes are sequences of char codes.  *)
(***************************************************************************)
EXTENDS Integers, Sequences, FiniteSets, Bags, TLC

\* ------------------------------------------------------------------ bounds
MaxTicks == 1
MaxOps == 3
MaxCalls == 2

\* ------------------------------------------------------- cacheService.js
VARIABLES
  idbAvailable,   \* 'indexedDB' in window
  db,             \* the database PlantQACache: object store name -> set of records
  txq,            \* object store name -> the transactions created and not yet run
  now,            \* Date.now()
  ticks,          \* number of clock advances so far
  ops,            \* the getCache / setCache calls in progress, by call slot
  nOps,           \* number of cache calls issued so far
  sweep,          \* the clearExpiredCache call of the current page session
  ret,            \* the most recent return of getCache / setCache
  lastPut         \* history: the most recent put on each (store, key)

cacheVars == <<idbAvailable, db, txq, now, ticks, ops, nOps, sweep, ret, lastPut>>

\* One hook instance (usePlantsData, useClassification or useQA) per behaviour:
\* the instances share nothing but the database, where each has its own store.
VARIABLES
  inst,               \* which hook the instance is
  hookState,          \* its React state: result (plants / classifications / answer), loading, error
  abortControllerRef, \* abortControllerRef.current: the controller of call n, 0 for null
  aborted,            \* the controllers whose abort() has been called
  calls,              \* the calls of fetchPlants / classifyImage / askQuestion, in order of issue
  nCalls,             \* number of calls issued
  staleApplied        \* history: state fields changed by a call after a later call was issued

coordVars == <<inst, hookState, abortControllerRef, aborted, calls, nCalls, staleApplied>>

\* The chat component PlantChatbot: its React state and what it has in flight.
VARIABLES
  messages,                  \* the messages of the chat, in order
  inputMessage,              \* the text in the input field
  imageFiles,                \* the attached images
  isLoading,
  error,
  classifications,
  showClassificationDialog,
  selectedPlant,
  classificationLoading,
  pendingQuestion,
  sending,                   \* the handleSendMessage call in progress, its closure values
  timers,                    \* the setTimeout callbacks of handlePlantSelection not yet run
  asking,                    \* the handleQuestionWithSelectedPlant calls in progress
  sessionId,                 \* the uuid the mount effect has set
  requests                   \* history: the calls of fetch the component has made

chatVars == <<messages, inputMessage, imageFiles, isLoading, error, classifications,
              showClassificationDialog, selectedPlant, classificationLoading,
              pendingQuestion, sending, timers, asking, sessionId, requests>>

\* Calls of generateHash, over the page sessions of a browser.
VARIABLES
  hashCall,      \* the call of generateHash that is running: its argument and locals
  hashSession,   \* the number of the page session (the module is loaded once in each)
  hashed         \* history: the argument and the return of each call, where and when

hashVars == <<hashCall, hashSession, hashed>>

\* One instance of the hook useNetwork, and the browser's connectivity.
VARIABLES
  navigatorOnLine,  \* navigator.onLine
  netEvents,        \* the 'online' / 'offline' events fired on window and not yet handled
  isOnline,         \* the hook's React state
  wasOffline,
  reconnecting,
  netTimers,        \* the setTimeout callbacks of the hook not yet run: a bag of due times
  netCalls,         \* the calls of withNetworkCheck / tryReconnect, in order of issue
  nNetCalls,        \* number of calls issued
  netHandled        \* history: the events the hook's listeners have handled, in order

netVars == <<navigatorOnLine, netEvents, isOnline, wasOffline, reconnecting,
             netTimers, netCalls, nNetCalls, netHandled>>

CACHE_NAMES ==
  [PLANTS |-> "plants-data-cache",
   CLASSIFICATIONS |-> "classifications-cache",
   QA |-> "qa-responses-cache"]

CACHE_EXPIRY ==
  [PLANTS |-> 24 * 60 * 60 * 1000,
   CLASSIFICATIONS |-> 30 * 60 * 1000,
   QA |-> 60 * 60 * 1000]

\* Object.values(CACHE_NAMES)
CacheNameValues == {CACHE_NAMES[n] : n \in DOMAIN CACHE_NAMES}

\* String.prototype.toUpperCase on the store names
toUpperCase(str) ==
  CASE str = "plants-data-cache" -> "PLANTS-DATA-CACHE"
    [] str = "classifications-cache" -> "CLASSIFICATIONS-CACHE"
    [] str = "qa-responses-cache" -> "QA-RESPONSES-CACHE"
    [] OTHER -> str

\* obj[name]: the property when the object has it, undefined ({}) otherwise
Property(obj, name) == IF name \in DOMAIN obj THEN {obj[name]} ELSE {}

\* JavaScript truthiness of an optional number
Truthy(opt) == \E x \in opt : x # 0

\* a || b || 0 on optional numbers
OrZero(a, b) ==
  IF Truthy(a) THEN CHOOSE x \in a : TRUE
  ELSE IF Truthy(b) THEN CHOOSE x \in b : TRUE
  ELSE 0

\* Date.now() + (expiryTime || CACHE_EXPIRY[cacheName.toUpperCase()] || 0)
ExpiryOf(t, cacheName, expiryTime) ==
  t + OrZero(expiryTime, Property(CACHE_EXPIRY, toUpperCase(cacheName)))

\* a put that adds the record and keeps the one with the same key
StorePut_Keep(store, record) == store \cup {record}

\* store.put(record): the record replaces the one with the same key path
StorePut(store, record) == {r \in store : r.key # record.key} \cup {record}

\* store.get(key): request.result, undefined ({}) when there is no record
StoreGet(store, key) == {r \in store : r.key = key}

\* store.delete(key)
StoreDelete(store, key) == {r \in store : r.key # key}

\* the expiry check with the boundary included: result.expiry >= Date.now()
NotExpired_Inclusive(record, t) == record.expiry >= t

\* result.expiry > Date.now()
NotExpired(record, t) == record.expiry > t

\* IDBKeyRange.upperBound(now) on the expiry index
InUpperBound(record, t) == record.expiry <= t

Null == "null"
True == "true"

\* --------------------------------------------------------- generateHash
\* 32-bit integers are pairs <<high, low>> of 16-bit halves, two's complement
Half == 65536

\* hash << 5
ShiftLeft5(w) ==
  LET low == w[2] * 32 IN <<(w[1] * 32 + low \div Half) % Half, low % Half>>

\* a - b, to 32 bits
Minus(a, b) ==
  LET low == a[2] - b[2]
      borrow == IF low < 0 THEN 1 ELSE 0
  IN <<(a[1] - b[1] - borrow + 2 * Half) % Half, (low + Half) % Half>>

\* a + char, to 32 bits (hash & hash)
Plus(a, char) ==
  LET low == a[2] + char IN <<(a[1] + low \div Half) % Half, low % Half>>

Digits == "0123456789"
Lower == "abcdefghijklmnopqrstuvwxyz"
Upper == "ABCDEFGHIJKLMNOPQRSTUVWXYZ"

\* the position of a character in a string, 0 when it is not there
IndexOf(ch, str) ==
  IF \E i \in 1..Len(str) : SubSeq(str, i, i) = ch
  THEN CHOOSE i \in 1..Len(str) : SubSeq(str, i, i) = ch
  ELSE 0

\* str.charCodeAt(i) for the characters of the request keys
charCodeAt(ch) ==
  IF ch = " " THEN 32
  ELSE IF ch = "-" THEN 45
  ELSE IF ch = "." THEN 46
  ELSE IF IndexOf(ch, Digits) > 0 THEN 47 + IndexOf(ch, Digits)
  ELSE IF IndexOf(ch, Upper) > 0 THEN 64 + IndexOf(ch, Upper)
  ELSE 96 + IndexOf(ch, Lower)

\* one round of the loop of generateHash, on a 32-bit hash and a char code:
\* hash = ((hash << 5) - hash) + char; hash = hash & hash
HashStep[w \in (0..(Half - 1)) \X (0..(Half - 1)), char \in 0..(Half - 1)] ==
  Plus(Minus(ShiftLeft5(w), w), char)

\* the value of hash after the first n rounds of the loop over str
HashLoop(str, n) ==
  LET hash[i \in 0..Len(str)] ==
        IF i = 0 THEN <<0, 0>> ELSE HashStep[hash[i - 1], charCodeAt(SubSeq(str, i, i))]
  IN hash[n]

RECURSIVE Hex(_)
\* the hexadecimal digits of a natural number below 65536
Hex(n) ==
  IF n < 16 THEN SubSeq("0123456789abcdef", n + 1, n + 1)
  ELSE Hex(n \div 16) \o SubSeq("0123456789abcdef", (n % 16) + 1, (n % 16) + 1)

RECURSIVE Pad4(_)
Pad4(str) == IF Len(str) < 4 THEN Pad4("0" \o str) ELSE str

\* Number.prototype.toString(16) of a 32-bit integer
toString16(w) ==
  LET negative == w[1] >= Half \div 2
      m == IF negative THEN Minus(<<0, 0>>, w) ELSE w
      digits == IF m[1] = 0 THEN Hex(m[2]) ELSE Hex(m[1]) \o Pad4(Hex(m[2]))
  IN IF negative THEN "-" \o digits ELSE digits

generateHash(str) == toString16(HashLoop(str, Len(str)))

RECURSIVE trimStart(_)
trimStart(str) == IF str # "" /\ Head(str) = " " THEN trimStart(Tail(str)) ELSE str

RECURSIVE trimEnd(_)
trimEnd(str) ==
  IF str # "" /\ SubSeq(str, Len(str), Len(str)) = " "
  THEN trimEnd(SubSeq(str, 1, Len(str) - 1)) ELSE str

\* String.prototype.trim
trim(str) == trimEnd(trimStart(str))

\* ---------------------------------------------------------- request keys
\* the image files offered to classifyImage ({} is no file): two of them have
\* the same name, modification time and size, and different bytes
ImageFiles ==
  {[name |-> "a.jpg", lastModified |-> 17, size |-> 2048, bytes |-> "x"],
   [name |-> "a.jpg", lastModified |-> 17, size |-> 2048, bytes |-> "y"],
   [name |-> "b.jpg", lastModified |-> 17, size |-> 2 * 1024 * 1024, bytes |-> "x"]}

\* the (label, question) pairs offered to askQuestion: two that are equal
\* after trimming, one without a label and one with a blank question, and two
\* that are different plants and questions joined to the same string
Questions ==
  {<<"a", "c">>, <<"a", " c ">>, <<"", "c">>, <<"a", " ">>,
   <<"a-b", "c">>, <<"a", "b-c">>}

\* createImageHash
createImageHash(file) ==
  generateHash(file.name \o "-" \o ToString(file.lastModified) \o "-" \o ToString(file.size))

\* questionHash of askQuestion
questionHash(label, question) == generateHash(label \o "-" \o trim(question))

\* the keys the application uses in each object store
ImageKeys == {createImageHash(f) : f \in ImageFiles}
QuestionKeys ==
  {questionHash(q[1], q[2]) : q \in {x \in Questions : x[1] # "" /\ trim(x[2]) # ""}}
KeysOf(cacheName) ==
  IF cacheName = CACHE_NAMES.PLANTS THEN {"all-plants"}
  ELSE IF cacheName = CACHE_NAMES.CLASSIFICATIONS THEN ImageKeys
  ELSE QuestionKeys
Keys == UNION {KeysOf(c) : c \in CacheNameValues}

\* a key that two object stores hold: the image key of a.jpg is also the
\* question key of label "a.jpg-17" and question "2048" (the same string is hashed)
SharedKey ==
  createImageHash([name |-> "a.jpg", lastModified |-> 17, size |-> 2048, bytes |-> "x"])

\* the keys getCache / setCache are called with on each object store
CacheKeys(cacheName) ==
  IF cacheName = CACHE_NAMES.PLANTS THEN {"all-plants"} ELSE {SharedKey}
\* the value passed to the n-th call of the cache service, one value per call
ValueOf(n) == "v" \o ToString(n)
Values == {ValueOf(n) : n \in 1..MaxOps}
TickSteps == {1}
\* the expiryTime argument: omitted by every caller of setCache
\* (cachePlantsData, cacheClassifications, cacheQAResponse)
ExpiryTimes == {{}}
Slots == {1, 2}

\* a call of getCache / setCache: where it is (pc) and its arguments
IdleOp ==
  [op |-> "none", pc |-> "idle", cacheName |-> "", key |-> "", value |-> "",
   expiryTime |-> {}]

NoRet ==
  [op |-> "none", cacheName |-> "", key |-> "", result |-> Null, rec |-> {},
   at |-> 0, seen |-> {}]

\* a transaction on one object store that has been created and has not run:
\* the get of getCache (readonly), the put of setCache with the record it
\* stores and the clock reading of its creation, the delete of getCache for
\* an expired key, the sweep of clearExpiredCache with its clock reading; by
\* is the call waiting for it (0: no call waits for a delete or a sweep)
NoTx ==
  [kind |-> "none", by |-> 0, key |-> "", value |-> "", expiry |-> 0, at |-> 0,
   expiryTime |-> {}]

CacheInit ==
  /\ idbAvailable \in BOOLEAN
  /\ db = [c \in CacheNameValues |-> {}]
  /\ txq = [c \in CacheNameValues |-> <<>>]
  /\ now = 0
  /\ ticks = 0
  /\ ops = [s \in Slots |-> IdleOp]
  /\ nOps = 0
  /\ sweep = "open"
  /\ ret = NoRet
  /\ lastPut = [c \in CacheNameValues |-> [k \in Keys |-> {}]]

\* the clock advances
Tick ==
  /\ ticks < MaxTicks
  /\ \E d \in TickSteps : now' = now + d
  /\ ticks' = ticks + 1
  /\ UNCHANGED <<idbAvailable, db, txq, ops, nOps, sweep, ret, lastPut,
                 coordVars, chatVars, hashVars, netVars>>

\* a call takes the first free call slot
FreeSlot(s) ==
  /\ ops[s].pc = "idle"
  /\ \A s2 \in Slots : s2 < s => ops[s2].pc # "idle"

\* Transactions on one object store run in the order of their creation, a
\* readwrite transaction alone and readonly transactions together: the
\* transaction at place i of the queue q can run
Runnable(q, i) ==
  \A j \in 1..(i - 1) : q[i].kind = "get" /\ q[j].kind = "get"

\* the place in the queue of the transaction call `by` waits for
TxOf(q, by) == CHOOSE i \in DOMAIN q : q[i].by = by

\* the queue without the transaction at place i
Without_Tx(q, i) == SubSeq(q, 1, i - 1) \o SubSeq(q, i + 1, Len(q))

\* the record a put transaction stores
RecordOf(tx) == [key |-> tx.key, value |-> tx.value, expiry |-> tx.expiry]

\* the object store after the transaction tx has run
Ran(store, tx) ==
  CASE tx.kind = "put" -> StorePut(store, RecordOf(tx))
    [] tx.kind = "delete" -> StoreDelete(store, tx.key)
    [] tx.kind = "sweep" -> {r \in store : ~InUpperBound(r, tx.at)}
    [] OTHER -> store

\* the history of puts of one store after the put transaction tx has committed
Recorded(puts, tx, acked) ==
  IF tx.kind # "put" THEN puts
  ELSE [puts EXCEPT ![tx.key] =
          {[slot |-> tx.by, value |-> tx.value, at |-> tx.at,
            expiryTime |-> tx.expiryTime, expiry |-> tx.expiry, old |-> FALSE,
            acked |-> acked, prev |-> {p.value : p \in puts[tx.key]}]}]

\* setCache(cacheName, key, value, expiryTime) is called: it returns null at
\* once without IndexedDB, and otherwise suspends at `await openDatabase()`
setCacheCall(s, cacheName, key, value, expiryTime) ==
  /\ FreeSlot(s)
  /\ nOps < MaxOps
  /\ nOps' = nOps + 1
  /\ IF idbAvailable
     THEN /\ ops' = [ops EXCEPT ![s] =
                [IdleOp EXCEPT !.op = "set", !.pc = "open", !.cacheName = cacheName,
                               !.key = key, !.value = value, !.expiryTime = expiryTime]]
          /\ ret' = NoRet
     ELSE /\ ops' = ops
          /\ ret' = [NoRet EXCEPT !.op = "set", !.cacheName = cacheName, !.key = key,
                                  !.at = now]
  /\ UNCHANGED <<idbAvailable, db, txq, now, ticks, sweep, lastPut,
                 coordVars, chatVars, hashVars, netVars>>

\* setCache after openDatabase resolved: the readwrite transaction is created,
\* the clock read and the put queued; the call returns to the event loop with
\* nothing stored yet
setCachePut(s) ==
  /\ ops[s].op = "set" /\ ops[s].pc = "open"
  /\ LET o == ops[s]
     IN txq' = [txq EXCEPT ![o.cacheName] = Append(@,
                  [NoTx EXCEPT !.kind = "put", !.by = s, !.key = o.key, !.value = o.value,
                               !.expiry = ExpiryOf(now, o.cacheName, o.expiryTime),
                               !.at = now, !.expiryTime = o.expiryTime])]
  /\ ops' = [ops EXCEPT ![s].pc = "tx"]
  /\ UNCHANGED <<idbAvailable, db, now, ticks, nOps, sweep, ret, lastPut,
                 coordVars, chatVars, hashVars, netVars>>

\* the put has run and the transaction committed, in its turn; tx.oncomplete:
\* setCache resolves to true
setCacheComplete(s) ==
  /\ ops[s].op = "set" /\ ops[s].pc = "tx"
  /\ LET c == ops[s].cacheName
         i == TxOf(txq[c], s)
     IN /\ Runnable(txq[c], i)
        /\ db' = [db EXCEPT ![c] = Ran(@, txq[c][i])]
        /\ lastPut' = [lastPut EXCEPT ![c] = Recorded(@, txq[c][i], TRUE)]
        /\ txq' = [txq EXCEPT ![c] = Without_Tx(@, i)]
  /\ ops' = [ops EXCEPT ![s] = IdleOp]
  /\ ret' = [NoRet EXCEPT !.op = "set", !.cacheName = ops[s].cacheName,
                          !.key = ops[s].key, !.result = True, !.at = now]
  /\ UNCHANGED <<idbAvailable, now, ticks, nOps, sweep,
                 coordVars, chatVars, hashVars, netVars>>

\* getCache(cacheName, key) is called
getCacheCall(s, cacheName, key) ==
  /\ FreeSlot(s)
  /\ nOps < MaxOps
  /\ nOps' = nOps + 1
  /\ IF idbAvailable
     THEN /\ ops' = [ops EXCEPT ![s] =
                [IdleOp EXCEPT !.op = "get", !.pc = "open", !.cacheName = cacheName,
                               !.key = key]]
          /\ ret' = NoRet
     ELSE /\ ops' = ops
          /\ ret' = [NoRet EXCEPT !.op = "get", !.cacheName = cacheName, !.key = key,
                                  !.at = now]
  /\ UNCHANGED <<idbAvailable, db, txq, now, ticks, sweep, lastPut,
                 coordVars, chatVars, hashVars, netVars>>

\* getCache after openDatabase resolved: the readonly transaction is created
\* and the get queued
getCacheRead(s) ==
  /\ ops[s].op = "get" /\ ops[s].pc = "open"
  /\ txq' = [txq EXCEPT ![ops[s].cacheName] = Append(@,
               [NoTx EXCEPT !.kind = "get", !.by = s, !.key = ops[s].key])]
  /\ ops' = [ops EXCEPT ![s].pc = "await"]
  /\ UNCHANGED <<idbAvailable, db, now, ticks, nOps, sweep, ret, lastPut,
                 coordVars, chatVars, hashVars, netVars>>

\* the queue of a store after the get at place i has run at clock reading t:
\* the readwrite transaction that deletes an expired record is created
AfterGet(cacheName, i, t) ==
  LET q == txq[cacheName]
      rec == StoreGet(db[cacheName], q[i].key)
  IN IF rec # {} /\ \A r \in rec : ~NotExpired(r, t)
     THEN Append(Without_Tx(q, i), [NoTx EXCEPT !.kind = "delete", !.key = q[i].key])
     ELSE Without_Tx(q, i)

\* getCache after request.onsuccess: the get has run in its turn; the expiry
\* check, the delete transaction of an expired record, and the return value
getCacheResume(s) ==
  /\ ops[s].op = "get" /\ ops[s].pc = "await"
  /\ LET o == ops[s]
         i == TxOf(txq[o.cacheName], s)
         rec == StoreGet(db[o.cacheName], o.key)
         fresh == {r \in rec : NotExpired(r, now)}
     IN /\ Runnable(txq[o.cacheName], i)
        /\ txq' = [txq EXCEPT ![o.cacheName] = AfterGet(o.cacheName, i, now)]
        /\ ret' = [op |-> "get", cacheName |-> o.cacheName, key |-> o.key,
                   result |-> IF fresh # {} THEN (CHOOSE r \in fresh : TRUE).value
                              ELSE Null,
                   rec |-> rec, at |-> now, seen |-> lastPut[o.cacheName][o.key]]
  /\ ops' = [ops EXCEPT ![s] = IdleOp]
  /\ UNCHANGED <<idbAvailable, db, now, ticks, nOps, sweep, lastPut,
                 coordVars, chatVars, hashVars, netVars>>

\* a delete transaction of getCache (deleteTx) or a transaction of
\* clearExpiredCache runs on the store cacheName: a readwrite transaction,
\* it runs when it is the oldest of its store
runTx(cacheName) ==
  /\ txq[cacheName] # <<>>
  /\ Head(txq[cacheName]).kind \in {"delete", "sweep"}
  /\ db' = [db EXCEPT ![cacheName] = Ran(@, Head(txq[cacheName]))]
  /\ txq' = [txq EXCEPT ![cacheName] = Tail(@)]
  /\ UNCHANGED <<idbAvailable, now, ticks, ops, nOps, sweep, ret, lastPut,
                 coordVars, chatVars, hashVars, netVars>>

\* clearExpiredCache() of the module load ends its first turn. Without
\* IndexedDB it has returned at once. When openDatabase resolved (opened) the
\* clock is read and one readwrite transaction per store created, each to
\* delete the records of the expiry index up to that reading; the transaction
\* of a store that holds no such record and has no transaction waiting
\* deletes nothing and delays nothing: it is not kept in the queue. When
\* openDatabase rejected (request.onerror of indexedDB.open) the catch logs
\* the error and no transaction is created.
clearExpiredCache(opened) ==
  /\ sweep = "open"
  /\ opened => idbAvailable
  /\ sweep' = "done"
  /\ txq' = [c \in CacheNameValues |->
               IF /\ opened
                  /\ txq[c] # <<>> \/ \E r \in db[c] : InUpperBound(r, now)
               THEN Append(txq[c], [NoTx EXCEPT !.kind = "sweep", !.at = now])
               ELSE txq[c]]
  /\ UNCHANGED <<idbAvailable, db, now, ticks, ops, nOps, ret, lastPut,
                 coordVars, chatVars, hashVars, netVars>>

\* the promise of setCache is rejected (only ever with tx.error)
Rejected == "rejected"

\* getCache / setCache when openDatabase rejects (request.onerror of
\* indexedDB.open): the catch logs the error and returns null
openDatabaseError(s) ==
  /\ ops[s].pc = "open"
  /\ ops' = [ops EXCEPT ![s] = IdleOp]
  /\ ret' = [NoRet EXCEPT !.op = ops[s].op, !.cacheName = ops[s].cacheName,
                          !.key = ops[s].key, !.at = now]
  /\ UNCHANGED <<idbAvailable, db, txq, now, ticks, nOps, sweep, lastPut,
                 coordVars, chatVars, hashVars, netVars>>

\* getCache when the get request fails in its turn (request.onerror): the
\* awaited promise rejects inside the try, the catch returns null
getCacheError(s) ==
  /\ ops[s].op = "get" /\ ops[s].pc = "await"
  /\ LET c == ops[s].cacheName
     IN /\ Runnable(txq[c], TxOf(txq[c], s))
        /\ txq' = [txq EXCEPT ![c] = Without_Tx(@, TxOf(txq[c], s))]
  /\ ops' = [ops EXCEPT ![s] = IdleOp]
  /\ ret' = [NoRet EXCEPT !.op = "get", !.cacheName = ops[s].cacheName,
                          !.key = ops[s].key, !.at = now]
  /\ UNCHANGED <<idbAvailable, db, now, ticks, nOps, sweep, lastPut,
                 coordVars, chatVars, hashVars, netVars>>

\* setCache when the queued put fails in its turn and the transaction errors
\* (tx.onerror): the promise made by `return new Promise(...)` is returned
\* without await, so its rejection is not caught by the try and setCache
\* rejects; nothing is stored
setCacheTxError(s) ==
  /\ ops[s].op = "set" /\ ops[s].pc = "tx"
  /\ LET c == ops[s].cacheName
     IN /\ Runnable(txq[c], TxOf(txq[c], s))
        /\ txq' = [txq EXCEPT ![c] = Without_Tx(@, TxOf(txq[c], s))]
  /\ ops' = [ops EXCEPT ![s] = IdleOp]
  /\ ret' = [NoRet EXCEPT !.op = "set", !.cacheName = ops[s].cacheName,
                          !.key = ops[s].key, !.result = Rejected, !.at = now]
  /\ UNCHANGED <<idbAvailable, db, now, ticks, nOps, sweep, lastPut,
                 coordVars, chatVars, hashVars, netVars>>

\* the readwrite transactions waiting on a store
Readwrites(q) == {i \in DOMAIN q : q[i].kind # "get"}

\* a store and its history of puts after the first n readwrite transactions
\* of its queue have run with the page gone, the puts unacknowledged. A put
\* or a delete was requested when its transaction was created and is done by
\* the database; a sweep deletes in its request.onsuccess callback, which the
\* page runs: without the page it deletes nothing.
Flushed(cacheName, n) ==
  LET q == txq[cacheName]
      ran == {i \in Readwrites(q) : Cardinality({j \in Readwrites(q) : j <= i}) <= n}
      f[i \in 0..Len(q)] ==
        IF i = 0 THEN [store |-> db[cacheName], puts |-> lastPut[cacheName]]
        ELSE IF i \in ran /\ q[i].kind # "sweep"
        THEN [store |-> Ran(f[i - 1].store, q[i]),
              puts |-> Recorded(f[i - 1].puts, q[i], FALSE)]
        ELSE f[i - 1]
  IN f[Len(q)]

\* the page is reloaded: calls in progress are gone with the page, the module
\* is loaded again and calls clearExpiredCache(); the database persists. Of
\* the transactions that were waiting, the first n[cacheName] readwrite ones
\* of each store had run before the page went, a sweep among them without
\* its callback; the others are aborted, their put never stored.
Reload(n) ==
  /\ sweep = "done"
  /\ \/ \E c \in CacheNameValues : \E i \in DOMAIN txq[c] : txq[c][i].kind = "put"
     \/ \E c \in CacheNameValues : \E k \in Keys : \E p \in lastPut[c][k] : ~p.old
  /\ db' = [c \in CacheNameValues |-> Flushed(c, n[c]).store]
  /\ lastPut' = [c \in CacheNameValues |-> [k \in Keys |->
                   {[p EXCEPT !.old = TRUE] : p \in Flushed(c, n[c]).puts[k]}]]
  /\ txq' = [c \in CacheNameValues |-> <<>>]
  /\ ops' = [s \in Slots |-> IdleOp]
  /\ sweep' = "open"
  /\ ret' = NoRet
  /\ UNCHANGED <<idbAvailable, now, ticks, nOps,
                 coordVars, chatVars, hashVars, netVars>>

\* how many readwrite transactions of each store can have run when the page goes
Flushes == [c \in CacheNameValues |-> 0..Cardinality(Readwrites(txq[c]))]

\* the cache used by one caller at a time: every call is awaited before the next
SeqSlots == {1}

CacheNext ==
  \/ Tick
  \/ \E s \in SeqSlots, c \in CacheNameValues, e \in ExpiryTimes :
       \E k \in CacheKeys(c) : setCacheCall(s, c, k, ValueOf(nOps + 1), e)
  \/ \E s \in SeqSlots : setCachePut(s)
  \/ \E s \in SeqSlots : setCacheComplete(s)
  \/ \E s \in SeqSlots, c \in CacheNameValues : \E k \in CacheKeys(c) : getCacheCall(s, c, k)
  \/ \E s \in SeqSlots : getCacheRead(s)
  \/ \E s \in SeqSlots : getCacheResume(s)
  \/ \E opened \in BOOLEAN : clearExpiredCache(opened)
  \/ \E s \in SeqSlots : openDatabaseError(s)
  \/ \E s \in SeqSlots : getCacheError(s)
  \/ \E s \in SeqSlots : setCacheTxError(s)
  \/ \E c \in CacheNameValues : runTx(c)
  \/ \E n1 \in Flushes[CACHE_NAMES.PLANTS], n2 \in Flushes[CACHE_NAMES.CLASSIFICATIONS],
       n3 \in Flushes[CACHE_NAMES.QA] :
       Reload((CACHE_NAMES.PLANTS :> n1) @@ (CACHE_NAMES.CLASSIFICATIONS :> n2) @@ (CACHE_NAMES.QA :> n3))

\* the object stores the concurrent callers use
ConcurrentStores == {CACHE_NAMES.PLANTS, CACHE_NAMES.QA}

\* the cache used by two callers at once: a call is made while another is
\* suspended at one of its awaits
ConcurrentNext ==
  \/ Tick
  \/ \E s \in Slots, c \in ConcurrentStores, e \in ExpiryTimes :
       \E k \in CacheKeys(c) : setCacheCall(s, c, k, ValueOf(nOps + 1), e)
  \/ \E s \in Slots : setCachePut(s)
  \/ \E s \in Slots : setCacheComplete(s)
  \/ \E s \in Slots, c \in ConcurrentStores : \E k \in CacheKeys(c) : getCacheCall(s, c, k)
  \/ \E s \in Slots : getCacheRead(s)
  \/ \E s \in Slots : getCacheResume(s)
  \/ \E opened \in BOOLEAN : clearExpiredCache(opened)
  \/ \E s \in Slots : openDatabaseError(s)
  \/ \E s \in Slots : getCacheError(s)
  \/ \E s \in Slots : setCacheTxError(s)
  \/ \E c \in CacheNameValues : runTx(c)
  \/ \E n1 \in Flushes[CACHE_NAMES.PLANTS], n2 \in Flushes[CACHE_NAMES.CLASSIFICATIONS],
       n3 \in Flushes[CACHE_NAMES.QA] :
       Reload((CACHE_NAMES.PLANTS :> n1) @@ (CACHE_NAMES.CLASSIFICATIONS :> n2) @@ (CACHE_NAMES.QA :> n3))

\* ------------------------------------------------- calls of generateHash
MaxHashCalls == 3
MaxReloads == 1

\* the strings generateHash is called with: the empty string, request keys of
\* the three stores before hashing, a name with capitals and spaces
HashInputs ==
  {"", "a", "a-c", "a.jpg-17-2048", "b.jpg-17-2097152", "all-plants",
   "Ficus religiosa-What is it"}

\* no call of generateHash is running: its locals do not exist
NoHashCall == [pc |-> "idle", str |-> "", hash |-> <<0, 0>>, i |-> 0]

\* no call of generateHash has been made
HashIdle ==
  /\ hashCall = NoHashCall
  /\ hashSession = 0
  /\ hashed = <<>>

\* a hash that is not set to 0 at each call: it goes on from the value the
\* call before has left
HashStart_Kept == IF hashed = <<>> THEN <<0, 0>> ELSE hashed[Len(hashed)].hash

\* let hash = 0
HashStart == <<0, 0>>

\* generateHash(str) is called: let hash = 0, and the loop starts at i = 0
generateHashCall(str) ==
  /\ hashCall.pc = "idle"
  /\ Len(hashed) < MaxHashCalls
  /\ hashCall' = [pc |-> "loop", str |-> str, hash |-> HashStart, i |-> 0]
  /\ UNCHANGED <<hashSession, hashed, cacheVars, coordVars, chatVars, netVars>>

\* one round of the loop: char = str.charCodeAt(i), the new hash, i++
generateHashLoop ==
  /\ hashCall.pc = "loop"
  /\ hashCall.i < Len(hashCall.str)
  /\ hashCall' =
       [hashCall EXCEPT
          !.hash = HashStep[@, charCodeAt(SubSeq(hashCall.str, hashCall.i + 1,
                                                 hashCall.i + 1))],
          !.i = @ + 1]
  /\ UNCHANGED <<hashSession, hashed, cacheVars, coordVars, chatVars, netVars>>

\* the loop is over: return hash.toString(16); the return is recorded with
\* the argument, the page session and the time
generateHashReturn ==
  /\ hashCall.pc = "loop"
  /\ hashCall.i = Len(hashCall.str)
  /\ hashed' = Append(hashed, [str |-> hashCall.str, hash |-> hashCall.hash,
                               returned |-> toString16(hashCall.hash),
                               session |-> hashSession, at |-> now])
  /\ hashCall' = NoHashCall
  /\ UNCHANGED <<hashSession, cacheVars, coordVars, chatVars, netVars>>

\* the page is reloaded and the module evaluated again: generateHash is
\* defined afresh, there is no module state for it to lose
HashReload ==
  /\ hashCall.pc = "idle"
  /\ hashSession < MaxReloads
  /\ hashSession' = hashSession + 1
  /\ UNCHANGED <<hashCall, hashed, cacheVars, coordVars, chatVars, netVars>>

HashNext ==
  \/ \E str \in HashInputs : generateHashCall(str)
  \/ generateHashLoop
  \/ generateHashReturn
  \/ HashReload
  \/ Tick

\* ---------------------------------------------------------- imageUtils.js
Hooks == {"usePlantsData", "useClassification", "useQA"}
CallIds == 1..MaxCalls

\* the object store each hook reads and writes through the cacheService wrappers
StoreOf(h) ==
  CASE h = "usePlantsData" -> CACHE_NAMES.PLANTS
    [] h = "useClassification" -> CACHE_NAMES.CLASSIFICATIONS
    [] h = "useQA" -> CACHE_NAMES.QA

\* what the server sends back for call c
DataOf(c) == "d" \o ToString(c)

\* the plantsList fetchPlants builds from the metadata object
PlantsList(metadataJson) == "list(" \o metadataJson \o ")"

\* truthiness of a cached value / string
IsTruthy(v) == v \notin {Null, "", "undefined"}

\* a call: where it is (pc), its arguments (args), its locals (key,
\* forceRefresh, compress, signal, response, data), and its history: requested
\* (a request was sent), overlap, the last write of its key that its lookup
\* could read (stored), lookupAt, returned, how it ended (ended), the setters
\* its last continuation called (setters), the state fields they changed
\* (changed), what its cache write answered (cached) and the record it wrote
\* to the cache (put)
NoCall ==
  [pc |-> "none", args |-> <<>>, key |-> "", forceRefresh |-> FALSE, compress |-> FALSE,
   token |-> FALSE, signal |-> 0, response |-> "", data |-> "",
   requested |-> FALSE, overlap |-> {}, returned |-> Null, stored |-> {}, lookupAt |-> 0,
   ended |-> "", setters |-> <<>>, changed |-> {}, cached |-> "", put |-> {}]

Running(c) == calls[c].pc \notin {"none", "done"}

\* a later call has replaced the controller of call c
Superseded(c) == \E c2 \in CallIds : c2 > c /\ calls[c2].token

\* the cleanup of the hook's effect has run (the component is unmounted): the
\* controller the ref holds has been aborted and not replaced
Unmounted == abortControllerRef # 0 /\ abortControllerRef \in aborted

\* the state after the setters of one continuation (the setters of an
\* unmounted component change nothing), the fields they changed, and the
\* fields they changed although the call was superseded
SetState(u) ==
  IF Unmounted THEN hookState
  ELSE [f \in DOMAIN hookState |-> IF f \in DOMAIN u THEN u[f] ELSE hookState[f]]
Changed(u) == {f \in DOMAIN hookState : SetState(u)[f] # hookState[f]}
Stale(c, u) == IF Superseded(c) THEN Changed(u) ELSE {}

\* calls with the record of call c replaced
SetCall(c, record) == [x \in CallIds |-> IF x = c THEN record ELSE calls[x]]

CoordIdle ==
  /\ inst = "none"
  /\ hookState = [result |-> "", loading |-> FALSE, error |-> Null]
  /\ abortControllerRef = 0
  /\ aborted = {}
  /\ calls = [c \in CallIds |-> NoCall]
  /\ nCalls = 0
  /\ staleApplied = {}

CoordInit ==
  /\ inst \in Hooks
  /\ hookState = [result |-> "", loading |-> (inst = "usePlantsData"), error |-> Null]
  /\ abortControllerRef = 0
  /\ aborted = {}
  /\ calls = [c \in CallIds |-> NoCall]
  /\ nCalls = 0
  /\ staleApplied = {}

\* the clock has advanced by d since the last step that read it
Elapse(d) ==
  /\ d = 0 \/ ticks < MaxTicks
  /\ now' = now + d
  /\ ticks' = IF d = 0 THEN ticks ELSE ticks + 1

\* the time that can have passed between two readings of the clock
Elapsed == {0} \cup TickSteps

\* the transaction cacheService.cacheX(key, value) queues: that of setCache
\* without expiryTime, created at clock reading t for call `by`
PutTx(by, cacheName, key, value, t) ==
  [NoTx EXCEPT !.kind = "put", !.by = by, !.key = key, !.value = value,
               !.expiry = ExpiryOf(t, cacheName, {}), !.at = t]

\* a cacheX that does not test idbAvailable
cachePut_Always(by, cacheName, key, value, t) == <<PutTx(by, cacheName, key, value, t)>>

\* cacheService.cacheX(key, value): the transactions setCache creates once
\* openDatabase has resolved, none without IndexedDB
cachePut(by, cacheName, key, value, t) ==
  IF idbAvailable THEN <<PutTx(by, cacheName, key, value, t)>> ELSE <<>>

\* "Cancel any ongoing request": abort the current controller, install a new one
NewController(c) ==
  /\ aborted' = IF abortControllerRef # 0 THEN aborted \cup {abortControllerRef} ELSE aborted
  /\ abortControllerRef' = c

\* the calls with the same request key that have not resolved yet
InFlight(key) == {c \in CallIds : Running(c) /\ calls[c].key = key}

\* fetch(url, {signal: abortControllerRef.current.signal}) issued by call c: the
\* signal is the one of the controller the ref holds now (ref); an aborted
\* signal rejects at once and nothing is sent
IssueFetch(record, ref) ==
  [record EXCEPT !.pc = "fetch", !.signal = ref, !.requested = ref \notin aborted]

\* the call ends: its return value, the setters of the `finally` included in upd
Finish(record, returned) == [record EXCEPT !.pc = "done", !.returned = returned]

\* the last continuation of call c: it calls the setters upd, has written the
\* records put to the cache, and the call returns
End(c, record, returned, how, upd, put) ==
  /\ hookState' = SetState(upd)
  /\ staleApplied' = staleApplied \cup Stale(c, upd)
  /\ calls' = SetCall(c,
       [Finish(record, returned) EXCEPT
          !.ended = how, !.setters = upd, !.put = put,
          !.changed = Changed(upd)])

\* fetchPlants(forceRefresh); the call on mount is fetchPlants()
fetchPlants(c, forceRefresh) ==
  /\ inst = "usePlantsData" /\ c = nCalls + 1 /\ c \in CallIds
  /\ ~Unmounted
  /\ forceRefresh => nCalls > 0
  /\ nCalls' = c
  /\ hookState' = SetState([loading |-> TRUE, error |-> Null])
  /\ NewController(c)
  /\ LET key == "all-plants"
         call == [NoCall EXCEPT !.pc = "lookup", !.key = key, !.token = TRUE,
                                !.forceRefresh = forceRefresh, !.overlap = InFlight(key)]
     IN calls' = SetCall(c, IF forceRefresh THEN IssueFetch(call, c) ELSE call)
  /\ UNCHANGED <<inst, staleApplied, cacheVars, chatVars, hashVars, netVars>>

\* classifyImage(imageFile), imageFile = {} for no file
classifyImage(c, imageFile) ==
  /\ inst = "useClassification" /\ c = nCalls + 1 /\ c \in CallIds
  /\ ~Unmounted
  /\ nCalls' = c
  /\ IF imageFile = {}
     THEN /\ End(c, NoCall, Null, "rejected", [error |-> "No image file provided"], {})
          /\ UNCHANGED <<abortControllerRef, aborted>>
     ELSE LET chosen == CHOOSE f \in imageFile : TRUE
              key == createImageHash(chosen)
          IN /\ hookState' = SetState([loading |-> TRUE, error |-> Null])
             /\ NewController(c)
             /\ calls' = SetCall(c,
                  [NoCall EXCEPT !.pc = "lookup", !.args = <<chosen>>,
                                 !.key = key, !.token = TRUE,
                                 !.compress = (chosen.size > 1024 * 1024),
                                 !.overlap = InFlight(key)])
             /\ UNCHANGED staleApplied
  /\ UNCHANGED <<inst, cacheVars, chatVars, hashVars, netVars>>

\* askQuestion(label, question)
askQuestion(c, label, question) ==
  /\ inst = "useQA" /\ c = nCalls + 1 /\ c \in CallIds
  /\ ~Unmounted
  /\ nCalls' = c
  /\ IF label = "" \/ trim(question) = ""
     THEN /\ End(c, NoCall, Null, "rejected",
                 [error |-> "Both label and question are required"], {})
          /\ UNCHANGED <<abortControllerRef, aborted>>
     ELSE LET key == questionHash(label, question)
          IN /\ hookState' = SetState([loading |-> TRUE, error |-> Null, result |-> ""])
             /\ NewController(c)
             /\ calls' = SetCall(c,
                  [NoCall EXCEPT !.pc = "lookup", !.args = <<label, question>>,
                                 !.key = key, !.token = TRUE,
                                 !.overlap = InFlight(key)])
             /\ UNCHANGED staleApplied
  /\ UNCHANGED <<inst, cacheVars, chatVars, hashVars, netVars>>

\* clearClassifications(): setClassifications([])
clearClassifications ==
  /\ inst = "useClassification"
  /\ ~Unmounted
  /\ hookState' = SetState([result |-> ""])
  /\ UNCHANGED <<inst, abortControllerRef, aborted, calls, nCalls, staleApplied,
                 cacheVars, chatVars, hashVars, netVars>>

\* clearAnswer(): setAnswer(''), setError(null)
clearAnswer ==
  /\ inst = "useQA"
  /\ ~Unmounted
  /\ hookState' = SetState([result |-> "", error |-> Null])
  /\ UNCHANGED <<inst, abortControllerRef, aborted, calls, nCalls, staleApplied,
                 cacheVars, chatVars, hashVars, netVars>>

\* the prefix each hook puts before error.message in setError
ErrorText(message) ==
  CASE inst = "usePlantsData" -> "Khong the tai du lieu: " \o message
    [] inst = "useClassification" -> "Error classifying image: " \o message
    [] inst = "useQA" -> "Error getting answer: " \o message

\* the catch and finally blocks for an error that is not an AbortError; record
\* is the call with its locals at the throw
Fail(c, record, message) ==
  End(c, record, Null, "error", [error |-> ErrorText(message), loading |-> FALSE], {})

\* the catch and finally blocks for an AbortError, with setError called as well
Abort_SetError(c) ==
  End(c, calls[c], Null, "aborted",
      [error |-> ErrorText("The user aborted a request."), loading |-> FALSE], {})

\* the catch and finally blocks for an AbortError
Abort(c) ==
  End(c, calls[c], Null, "aborted", [loading |-> FALSE], {})

\* how the storage answers a getCache: the record is read ("ok"), or
\* openDatabase or the get request fails and getCache returns null ("null")
StorageReads == {"ok", "null"}

\* how the storage answers a setCache: the transaction completes ("ok");
\* openDatabase fails or the put throws, and setCache returns null ("null");
\* the transaction errors and setCache rejects with tx.error, which is a
\* DOMException ("rejected") or still null when tx.onerror runs ("rejectedNull")
StorageWrites == {"ok", "null", "rejected", "rejectedNull"}

\* getCache of call c after openDatabase resolved: the readonly transaction is
\* created and the get queued
LookupOpen(c) ==
  /\ calls[c].pc = "lookup"
  /\ idbAvailable
  /\ txq' = [txq EXCEPT ![StoreOf(inst)] = Append(@,
               [NoTx EXCEPT !.kind = "get", !.by = c, !.key = calls[c].key])]
  /\ calls' = [calls EXCEPT ![c].pc = "lookupTx"]
  /\ UNCHANGED <<inst, hookState, abortControllerRef, aborted, nCalls, staleApplied>>
  /\ UNCHANGED <<idbAvailable, db, now, ticks, ops, nOps, sweep, ret, lastPut,
                 chatVars, hashVars, netVars>>

\* the continuation after `await cacheService.getCachedX(...)`: getCache has
\* returned at once without IndexedDB, or its get has run in its turn
\* (request.onsuccess), the expiry was checked against the clock and the
\* delete transaction of an expired record created ("ok"), or openDatabase or
\* the get request failed and getCache returned null ("null"); onLine is what
\* navigator.onLine reads then (only useQA reads it), d the time since the
\* clock was last read (getCache reads it when the get found a record)
LookupResume(c, onLine, d, storage) ==
  /\ storage \in StorageReads
  /\ Elapse(d)
  /\ LET cacheName == StoreOf(inst)
         queued == calls[c].pc = "lookupTx"
         i == TxOf(txq[cacheName], c)
         rec == IF queued /\ storage = "ok" THEN StoreGet(db[cacheName], calls[c].key) ELSE {}
         fresh == {r \in rec : NotExpired(r, now + d)}
         value == IF fresh # {} THEN (CHOOSE r \in fresh : TRUE).value ELSE Null
         call == [calls[c] EXCEPT
                    !.stored = IF storage = "ok" THEN lastPut[cacheName][calls[c].key]
                               ELSE {},
                    !.lookupAt = now + d]
     IN /\ \/ calls[c].pc = "lookup" /\ (storage = "ok") = ~idbAvailable
           \/ queued /\ Runnable(txq[cacheName], i)
        /\ d = 0 \/ rec # {}
        /\ txq' = IF ~queued THEN txq
                  ELSE IF storage = "ok"
                  THEN [txq EXCEPT ![cacheName] = AfterGet(cacheName, i, now + d)]
                  ELSE [txq EXCEPT ![cacheName] = Without_Tx(@, i)]
        /\ IF IsTruthy(value)
           THEN End(c, call, IF inst = "usePlantsData" THEN Null ELSE value, "hit",
                    [result |-> value, loading |-> FALSE], {})
           ELSE IF inst = "useQA" /\ ~onLine
           THEN End(c, call, Null, "offline",
                    [error |-> ErrorText("Ban dang ngoai tuyen."), loading |-> FALSE], {})
           ELSE /\ calls' = SetCall(c,
                     IF call.compress THEN [call EXCEPT !.pc = "compress"]
                     ELSE IssueFetch(call, abortControllerRef))
                /\ UNCHANGED <<hookState, staleApplied>>
  /\ UNCHANGED <<inst, abortControllerRef, aborted, nCalls>>
  /\ UNCHANGED <<idbAvailable, db, ops, nOps, sweep, ret, lastPut, chatVars, hashVars, netVars>>

\* the continuation after `await compressImage(imageFile)`
CompressResume(c, resolved) ==
  /\ calls[c].pc = "compress"
  /\ IF resolved
     THEN /\ calls' = SetCall(c, IssueFetch(calls[c], abortControllerRef))
          /\ UNCHANGED <<hookState, staleApplied>>
     ELSE Fail(c, calls[c], "Failed to load image")
  /\ UNCHANGED <<inst, abortControllerRef, aborted, nCalls, cacheVars, chatVars, hashVars, netVars>>

\* what the network can answer to a request of the hook: only fetchPlants
\* races its fetch with a timer
Outcomes ==
  {"valid", "malformed", "http", "httpDetail", "reject"}
    \cup (IF inst = "usePlantsData" THEN {"timeout"} ELSE {})

\* the message of the error thrown for a response that is not ok
HttpMessage(detail) ==
  CASE inst = "usePlantsData" -> "Failed to fetch plants (HTTP 500): Internal Server Error"
    [] inst = "useClassification" ->
         IF detail THEN "detail" ELSE "Classification failed (HTTP 500)"
    [] inst = "useQA" -> IF detail THEN "detail" ELSE "Failed to get answer (HTTP 500)"

\* the continuation after `await fetch(...)` (usePlantsData: after the race of
\* the fetch with the 30 s timer). A fetch whose signal is aborted has
\* rejected with an AbortError before the timer or an answer can win.
FetchResume(c, outcome) ==
  /\ calls[c].pc = "fetch"
  /\ outcome \in Outcomes
  /\ calls[c].requested
  /\ outcome = "timeout" => calls[c].signal \notin aborted
  /\ LET call == [calls[c] EXCEPT !.response = outcome]
     IN IF calls[c].signal \in aborted
        THEN Abort(c)
        ELSE CASE outcome = "timeout" -> Fail(c, call, "Request timed out after 30 seconds")
               [] outcome = "reject" -> Fail(c, call, "Failed to fetch")
               [] outcome \in {"http", "httpDetail"} ->
                    IF inst = "usePlantsData"
                    THEN Fail(c, call, HttpMessage(FALSE))
                    ELSE /\ calls' = SetCall(c, [call EXCEPT !.pc = "errjson"])
                         /\ UNCHANGED <<hookState, staleApplied>>
               [] OTHER ->
                    /\ calls' = SetCall(c, [call EXCEPT !.pc = "json"])
                    /\ UNCHANGED <<hookState, staleApplied>>
  /\ UNCHANGED <<inst, abortControllerRef, aborted, nCalls, cacheVars, chatVars, hashVars, netVars>>

\* a fetch issued with an aborted signal rejects with an AbortError
FetchAborted(c) ==
  /\ calls[c].pc = "fetch"
  /\ calls[c].signal \in aborted
  /\ Abort(c)
  /\ UNCHANGED <<inst, abortControllerRef, aborted, nCalls, cacheVars, chatVars, hashVars, netVars>>

\* the continuation after `await response.json().catch(() => ({}))` of a
\* response that is not ok: a body that cannot be read gives {}
ErrorBodyResume(c) ==
  /\ calls[c].pc = "errjson"
  /\ Fail(c, calls[c],
          HttpMessage(calls[c].response = "httpDetail" /\ calls[c].signal \notin aborted))
  /\ UNCHANGED <<inst, abortControllerRef, aborted, nCalls, cacheVars, chatVars, hashVars, netVars>>

\* the continuation after `await response.json()` of an ok response: the
\* validation of the body, then the call of cacheService.cacheX
JsonResume(c) ==
  /\ calls[c].pc = "json"
  /\ IF calls[c].signal \in aborted
     THEN Abort(c)
     ELSE IF calls[c].response = "malformed" /\ inst = "usePlantsData"
     THEN Fail(c, calls[c], "Invalid metadata format received from server")
     ELSE IF calls[c].response = "malformed" /\ inst = "useClassification"
     THEN Fail(c, calls[c], "Invalid classification response format")
     ELSE /\ calls' = [calls EXCEPT ![c].pc = "write",
                         ![c].data = IF calls[c].response = "malformed" THEN "undefined"
                                     ELSE IF inst = "usePlantsData"
                                     THEN PlantsList(DataOf(c)) ELSE DataOf(c)]
          /\ UNCHANGED <<hookState, staleApplied>>
  /\ UNCHANGED <<inst, abortControllerRef, aborted, nCalls, cacheVars, chatVars, hashVars, netVars>>

\* setCache of call c after openDatabase resolved, d after the clock was last
\* read: the readwrite transaction is created, the clock read for the expiry
\* and the put queued
WriteOpen(c, d) ==
  /\ calls[c].pc = "write"
  /\ Elapse(d)
  /\ LET put == cachePut(c, StoreOf(inst), calls[c].key, calls[c].data, now + d)
     IN /\ put # <<>>
        /\ txq' = [txq EXCEPT ![StoreOf(inst)] = @ \o put]
  /\ calls' = [calls EXCEPT ![c].pc = "writeTx"]
  /\ UNCHANGED <<inst, hookState, abortControllerRef, aborted, nCalls, staleApplied>>
  /\ UNCHANGED <<idbAvailable, db, ops, nOps, sweep, ret, lastPut,
                 chatVars, hashVars, netVars>>

\* the continuation after `await cacheService.cacheX(key, data)`: setCache has
\* returned null at once without IndexedDB, or its transaction has committed
\* in its turn (tx.oncomplete), and the result is set and returned.
\* When setCache rejects (tx.onerror), the catch block runs: with a
\* DOMException it calls setError, with null its `error.name` throws and the
\* call itself rejects.
WriteResume(c, storage) ==
  /\ storage \in StorageWrites
  /\ LET cacheName == StoreOf(inst)
         queued == calls[c].pc = "writeTx"
         i == TxOf(txq[cacheName], c)
         returned == IF inst = "usePlantsData" THEN Null ELSE calls[c].data
         upd == [result |-> calls[c].data, loading |-> FALSE]
     IN /\ \/ /\ calls[c].pc = "write" /\ storage \in {"ok", "null"}
              /\ IF storage = "ok"
                 THEN cachePut(c, cacheName, calls[c].key, calls[c].data, now) = <<>>
                 ELSE idbAvailable
           \/ queued /\ storage # "null" /\ Runnable(txq[cacheName], i)
        /\ txq' = IF queued THEN [txq EXCEPT ![cacheName] = Without_Tx(@, i)] ELSE txq
        /\ IF queued /\ storage = "ok"
           THEN /\ db' = [db EXCEPT ![cacheName] = Ran(@, txq[cacheName][i])]
                /\ lastPut' = [lastPut EXCEPT ![cacheName] =
                                 Recorded(@, txq[cacheName][i], TRUE)]
           ELSE UNCHANGED <<db, lastPut>>
        /\ CASE storage = "ok" ->
                  End(c, [calls[c] EXCEPT !.cached = IF queued THEN True ELSE Null],
                      returned, "ok", upd,
                      IF queued
                      THEN StoreGet(Ran(db[cacheName], txq[cacheName][i]), calls[c].key)
                      ELSE {})
             [] storage = "null" ->
                  End(c, [calls[c] EXCEPT !.cached = Null], returned, "ok", upd, {})
             [] storage = "rejected" ->
                  Fail(c, [calls[c] EXCEPT !.cached = Rejected], "The transaction failed")
             [] storage = "rejectedNull" ->
                  End(c, [calls[c] EXCEPT !.cached = Rejected], "TypeError", "thrown",
                      [loading |-> FALSE], {})
  /\ UNCHANGED <<inst, abortControllerRef, aborted, nCalls>>
  /\ UNCHANGED <<idbAvailable, now, ticks, ops, nOps, sweep, ret, chatVars, hashVars, netVars>>

\* the cleanup of the hook's effect, on unmount: the current controller is aborted
Unmount ==
  /\ abortControllerRef # 0
  /\ ~Unmounted
  /\ aborted' = aborted \cup {abortControllerRef}
  /\ UNCHANGED <<inst, hookState, abortControllerRef, calls, nCalls, staleApplied,
                 cacheVars, chatVars, hashVars, netVars>>

CoordNext ==
  \/ \E c \in CallIds, forceRefresh \in BOOLEAN : fetchPlants(c, forceRefresh)
  \/ \E c \in CallIds, f \in {{}} \cup {{x} : x \in ImageFiles} : classifyImage(c, f)
  \/ \E c \in CallIds, q \in Questions : askQuestion(c, q[1], q[2])
  \/ clearClassifications
  \/ clearAnswer
  \/ \E c \in CallIds : LookupOpen(c)
  \/ \E c \in CallIds, onLine \in BOOLEAN, d \in Elapsed, storage \in StorageReads :
       LookupResume(c, onLine, d, storage)
  \/ \E c \in CallIds, resolved \in BOOLEAN : CompressResume(c, resolved)
  \/ \E c \in CallIds, outcome \in Outcomes : FetchResume(c, outcome)
  \/ \E c \in CallIds : FetchAborted(c)
  \/ \E c \in CallIds : ErrorBodyResume(c)
  \/ \E c \in CallIds : JsonResume(c)
  \/ \E c \in CallIds, d \in Elapsed : WriteOpen(c, d)
  \/ \E c \in CallIds, storage \in StorageWrites : WriteResume(c, storage)
  \/ Unmount
  \/ \E opened \in BOOLEAN : clearExpiredCache(opened)
  \/ \E c \in CacheNameValues : runTx(c)

\* what runs without the network: the timer of fetchPlants, the rejection of
\* an aborted fetch, the cache and the image compression always answer; an
\* answer of the server, or the body of a response, may never come
CoordFairness ==
  \A c \in CallIds :
    /\ WF_<<cacheVars, coordVars, chatVars, hashVars, netVars>>(FetchResume(c, "timeout"))
    /\ WF_<<cacheVars, coordVars, chatVars, hashVars, netVars>>(FetchAborted(c))
    /\ WF_<<cacheVars, coordVars, chatVars, hashVars, netVars>>(
         \E onLine \in BOOLEAN, d \in Elapsed, storage \in StorageReads :
           LookupResume(c, onLine, d, storage))
    /\ WF_<<cacheVars, coordVars, chatVars, hashVars, netVars>>(\E resolved \in BOOLEAN : CompressResume(c, resolved))
    /\ WF_<<cacheVars, coordVars, chatVars, hashVars, netVars>>(
         \E storage \in StorageWrites : WriteResume(c, storage))
    /\ WF_<<cacheVars, coordVars, chatVars, hashVars, netVars>>(LookupOpen(c))
    /\ WF_<<cacheVars, coordVars, chatVars, hashVars, netVars>>(\E d \in Elapsed : WriteOpen(c, d))
    /\ WF_<<cacheVars, coordVars, chatVars, hashVars, netVars>>(
         \E cacheName \in CacheNameValues : runTx(cacheName))

\* --------------------------------------------------------- PlantChatbot.js
\* The message list is the one the component renders: of each message the model keeps the id, the sender, the type, the
\* content, the isProcessing / isError mark and the timestamp. No handler
\* branches on the clock; its readings only stamp the messages. An id is
\* the messageId of the flow (msg_<Date.now()> for a handleSendMessage call,
\* the id of the classification message or dialog_<Date.now()> for a
\* selection) followed by the suffix the code appends. The requests the
\* component passes to fetch are logged with the body they carry.
MaxImages == 1
MaxPending == 1
MaxSends == 2
MaxSelections == 2

\* String.prototype.toLowerCase, on one character
LowerChar(ch) ==
  IF IndexOf(ch, Upper) > 0
  THEN SubSeq(Lower, IndexOf(ch, Upper), IndexOf(ch, Upper))
  ELSE ch

\* String.prototype.toLowerCase
toLowerCase(str) ==
  LET low[i \in 0..Len(str)] ==
        IF i = 0 THEN "" ELSE low[i - 1] \o LowerChar(SubSeq(str, i, i))
  IN low[Len(str)]

MESSAGE_TYPE ==
  [TEXT |-> "text", IMAGE |-> "image", MULTI_IMAGE |-> "multi_image",
   CLASSIFICATION |-> "classification", SELECTION |-> "selection"]

SENDER == [USER |-> "user", BOT |-> "bot"]

\* what the user can type into the input field
Texts == {"", " Reset ", " hi "}

\* the labels the classifier answers with
Labels == {"rosa"}

\* the label of a result that is out of distribution
OodLabel == "Khong ton tai trong co so du lieu"

\* a message of the chat; mark is "processing" (isProcessing), "error"
\* (isError) or ""
Message(id, sender, type, content, mark) ==
  [id |-> id, sender |-> sender, type |-> type, content |-> content, mark |-> mark]

\* the message with its timestamp field
At(message, t) ==
  [id |-> message.id, sender |-> message.sender, type |-> message.type,
   content |-> message.content, mark |-> message.mark, timestamp |-> t]

\* the messages with their timestamp fields, all of one reading of the clock
AllAt(list, t) == [i \in DOMAIN list |-> At(list[i], t)]

\* the state of the cache service but for the clock: no handler of the chat
\* touches it
storeVars == <<idbAvailable, db, txq, ticks, ops, nOps, sweep, ret, lastPut>>

\* a handler of the chat starts and reads the clock: later than the handler
\* that ran before it (by a millisecond, the least the clock shows), and not
\* before the time `due` it was set for. The readings of one run are equal:
\* its synchronous part is far shorter than a millisecond.
Reading(due) ==
  now' = IF now + 1 < due THEN due ELSE now + 1

\* a filter that drops every processing message
Without_Processing(list, id) == SelectSeq(list, LAMBDA m : m.mark # "processing")

\* a filter with the comparison inverted
Without_Inverted(list, id) == SelectSeq(list, LAMBDA m : m.id = id)

\* prev.filter(m => m.id !== id)
Without(list, id) == SelectSeq(list, LAMBDA m : m.id # id)

\* the number of handleSendMessage calls that have reached their fetch, and
\* of handlePlantSelection calls
SendCount ==
  Cardinality({i \in DOMAIN requests : requests[i].from = "handleSendMessage"})
SelectionCount ==
  Cardinality({i \in DOMAIN messages : messages[i].type = MESSAGE_TYPE.SELECTION})

\* `msg_${Date.now()}` of the n-th handleSendMessage call (two calls are a
\* network round trip apart, so their times differ)
MessageId(n) == "msg" \o ToString(n)

\* the messageId a selection is made with: the id of the classification
\* message for a card in the chat, dialog_<time> for a card in the dialog
CardId(messageId) == messageId \o "_classification_results"
DialogId == "dialog" \o ToString(SelectionCount + 1)

\* the ids of the classification messages in the chat that show plantLabel
Cards(plantLabel) ==
  {messages[i].id : i \in {j \in DOMAIN messages :
      /\ messages[j].type = MESSAGE_TYPE.CLASSIFICATION
      /\ plantLabel \in messages[j].content}}

NotSending ==
  [pc |-> "none", questionText |-> Null, label |-> Null, reset |-> FALSE,
   messageId |-> "", request |-> 0]

\* the greeting the messages state is constructed with
Welcome ==
  At(Message("welcome", SENDER.BOT, MESSAGE_TYPE.TEXT,
             "Xin chao! Toi la tro ly thuc vat", ""), 0)

ChatInit ==
  /\ messages = <<Welcome>>
  /\ sessionId = "session-1"
  /\ inputMessage = ""
  /\ imageFiles = <<>>
  /\ isLoading = FALSE
  /\ error = Null
  /\ classifications = {}
  /\ showClassificationDialog = FALSE
  /\ selectedPlant = Null
  /\ classificationLoading = FALSE
  /\ pendingQuestion = Null
  /\ sending = NotSending
  /\ timers = {}
  /\ asking = {}
  /\ requests = <<>>

\* The selection dialog is a modal Dialog: while it is open the page beneath
\* it takes no click and no key (the paste listener is on the document).

\* onChange of the input field, disabled while isLoading
setInputMessage(text) ==
  /\ ~isLoading
  /\ ~showClassificationDialog
  /\ inputMessage' = text
  /\ UNCHANGED <<messages, sessionId, imageFiles, isLoading, error, classifications,
                 showClassificationDialog, selectedPlant, classificationLoading,
                 pendingQuestion, sending, timers, asking, requests,
                 cacheVars, coordVars, hashVars, netVars>>

\* handleFileSelect: the file button is disabled while isLoading
handleFileSelect(valid) ==
  /\ ~isLoading
  /\ ~showClassificationDialog
  /\ Len(imageFiles) < MaxImages
  /\ IF valid
     THEN imageFiles' = Append(imageFiles, "img") /\ error' = error
     ELSE error' = "Vui long chon file hinh anh hop le" /\ imageFiles' = imageFiles
  /\ UNCHANGED <<messages, sessionId, inputMessage, isLoading, classifications,
                 showClassificationDialog, selectedPlant, classificationLoading,
                 pendingQuestion, sending, timers, asking, requests,
                 cacheVars, coordVars, hashVars, netVars>>

\* handlePaste of an image, a listener on the document
handlePaste ==
  /\ Len(imageFiles) < MaxImages
  /\ imageFiles' = Append(imageFiles, "img")
  /\ UNCHANGED <<messages, sessionId, inputMessage, isLoading, error, classifications,
                 showClassificationDialog, selectedPlant, classificationLoading,
                 pendingQuestion, sending, timers, asking, requests,
                 cacheVars, coordVars, hashVars, netVars>>

\* removeImage(index), the button of one image preview
removeImage(index) ==
  /\ index \in DOMAIN imageFiles
  /\ ~showClassificationDialog
  /\ imageFiles' = [i \in 1..(Len(imageFiles) - 1) |->
                      IF i < index THEN imageFiles[i] ELSE imageFiles[i + 1]]
  /\ UNCHANGED <<messages, sessionId, inputMessage, isLoading, error, classifications,
                 showClassificationDialog, selectedPlant, classificationLoading,
                 pendingQuestion, sending, timers, asking, requests,
                 cacheVars, coordVars, hashVars, netVars>>

\* the "clear all" button of the image previews
clearAllImages ==
  /\ imageFiles # <<>>
  /\ ~showClassificationDialog
  /\ imageFiles' = <<>>
  /\ UNCHANGED <<messages, sessionId, inputMessage, isLoading, error, classifications,
                 showClassificationDialog, selectedPlant, classificationLoading,
                 pendingQuestion, sending, timers, asking, requests,
                 cacheVars, coordVars, hashVars, netVars>>

\* a call of fetch by the component: the handler that made it, the messageId
\* of its flow, the url, the body (the object given to JSON.stringify, or the
\* files of the form data) and its status: "sent", then how it was answered
Request(from, messageId, url, body) ==
  [from |-> from, messageId |-> messageId, url |-> url, body |-> body, status |-> "sent"]

\* the text is not kept
Deferred_Dropped(questionText) == pendingQuestion

\* pendingQuestion after `if (questionText) setPendingQuestion(questionText)`
\* of handleImageClassification
Deferred(questionText) ==
  IF questionText # "" THEN questionText ELSE pendingQuestion

\* a body that always has a label field
TextOnlyBody_AlwaysLabel(question) ==
  [label |-> selectedPlant, question |-> question, session_id |-> sessionId]

\* the body of the POST /api/qa of handleTextOnlyQuestion: with the label of
\* the selected plant, or without a label field
TextOnlyBody(question) ==
  IF selectedPlant # Null
  THEN [label |-> selectedPlant, question |-> question, session_id |-> sessionId]
  ELSE [question |-> question, session_id |-> sessionId]

\* handleSendMessage up to its first await, through handleImageClassification
\* or handleTextOnlyQuestion up to their fetch. The send button and the input
\* field are disabled while isLoading. inputMessage, imageFiles and
\* selectedPlant are read from the closure of the render, so the setters of
\* the reset branch do not change what the rest of the handler reads.
handleSendMessage ==
  /\ ~isLoading
  /\ ~showClassificationDialog
  /\ SendCount < MaxSends
  /\ Reading(0)
  /\ LET trimmedMessage == trim(inputMessage)
         timestamp == now'
         isReset == toLowerCase(trimmedMessage) = "reset"
         hasImages == Len(imageFiles) > 0
         messageId == MessageId(SendCount + 1)
         userMessages ==
           (IF trimmedMessage # ""
            THEN <<At(Message(messageId \o "_text", SENDER.USER, MESSAGE_TYPE.TEXT,
                              trimmedMessage, ""), timestamp)>>
            ELSE <<>>) \o
           (IF hasImages
            THEN <<At(Message(messageId \o "_image", SENDER.USER,
                              MESSAGE_TYPE.MULTI_IMAGE, imageFiles, ""), timestamp + 1)>>
            ELSE <<>>)
         processing ==
           At(Message(messageId \o "_processing", SENDER.BOT, MESSAGE_TYPE.TEXT,
                      IF hasImages THEN "Dang xu ly va phan loai hinh anh"
                      ELSE "Dang xu ly cau hoi cua ban", "processing"), now')
     IN /\ trimmedMessage # "" \/ hasImages
        /\ messages' = messages \o userMessages \o <<processing>>
        /\ inputMessage' = ""
        /\ isLoading' = TRUE
        /\ error' = Null
        /\ selectedPlant' = IF isReset THEN Null ELSE selectedPlant
        /\ classifications' = IF isReset THEN {} ELSE classifications
        /\ showClassificationDialog' = IF isReset THEN FALSE ELSE showClassificationDialog
        /\ imageFiles' = IF isReset /\ hasImages THEN <<>> ELSE imageFiles
        /\ IF hasImages
           THEN /\ classificationLoading' = TRUE
                /\ pendingQuestion' = Deferred(trimmedMessage)
                /\ requests' = Append(requests,
                     Request("handleSendMessage", messageId, "/api/classify",
                             [files |-> imageFiles]))
                /\ sending' = [pc |-> "classify",
                               questionText |-> IF trimmedMessage # "" THEN trimmedMessage
                                                ELSE Null,
                               label |-> Null, reset |-> isReset,
                               messageId |-> messageId, request |-> Len(requests) + 1]
           ELSE /\ classificationLoading' = classificationLoading
                /\ pendingQuestion' = IF isReset THEN Null ELSE pendingQuestion
                /\ requests' = Append(requests,
                     Request("handleSendMessage", messageId, "/api/qa",
                             TextOnlyBody(trimmedMessage)))
                /\ sending' = [pc |-> "qa", questionText |-> trimmedMessage,
                               label |-> selectedPlant, reset |-> isReset,
                               messageId |-> messageId, request |-> Len(requests) + 1]
  /\ UNCHANGED <<sessionId, timers, asking, storeVars, coordVars, hashVars, netVars>>

\* what /api/classify can answer: candidates ("results"), a first result with
\* the out-of-distribution label ("ood"), an empty list ("empty"), an object
\* without results ("missing"), a status that is not 2xx ("http"); or the
\* fetch rejects ("reject")
ClassifyOutcomes == {"results", "ood", "empty", "missing", "http", "reject"}

\* err.message of what the handlers throw and catch
ErrMessage(url, outcome) ==
  IF outcome = "reject" THEN "Failed to fetch"
  ELSE IF url = "/api/classify" THEN "Loi phan loai hinh anh (HTTP 500)"
  ELSE "Loi xu ly cau hoi (HTTP 500)"

\* requests with the answer to request n recorded
Answered(n, outcome) == [requests EXCEPT ![n].status = outcome]

\* the answers with which a handler throws: response.ok is false, or the
\* fetch has rejected
Failures == {"http", "reject"}

\* the selection dialog is never opened
OpenDialog_Never(outcome) == showClassificationDialog

\* showClassificationDialog after the answer of the classifier:
\* setShowClassificationDialog(true) with the candidates
OpenDialog(outcome) ==
  IF outcome = "results" THEN TRUE ELSE showClassificationDialog

\* the pending question is kept whatever the answer
Discard_Keep(outcome) == pendingQuestion

\* pendingQuestion after the answer of the classifier: setPendingQuestion(null)
\* in every branch but the one of the candidates
Discard(outcome) ==
  IF outcome = "results" THEN pendingQuestion ELSE Null

\* handleImageClassification after `await fetch`: the response is ok and its
\* body is awaited
ClassifyResponse ==
  /\ sending.pc = "classify"
  /\ sending' = [sending EXCEPT !.pc = "classifyBody"]
  /\ UNCHANGED <<messages, sessionId, inputMessage, imageFiles, isLoading, error,
                 classifications, showClassificationDialog, selectedPlant,
                 classificationLoading, pendingQuestion, timers, asking, requests,
                 cacheVars, coordVars, hashVars, netVars>>

\* the rest of handleImageClassification, then the finally block of
\* handleSendMessage: after `await fetch` when it rejects or the response is
\* not ok, after `await response.json()` otherwise
ClassifyResume(outcome) ==
  /\ sending.pc = IF outcome \in Failures THEN "classify" ELSE "classifyBody"
  /\ Reading(0)
  /\ outcome \in ClassifyOutcomes
  /\ LET messageId == sending.messageId
         failed == outcome \in Failures
         text == "Loi khi phan loai hinh anh: " \o ErrMessage("/api/classify", outcome)
         appended ==
           CASE outcome = "results" ->
                  <<Message(messageId \o "_classification_results", SENDER.BOT,
                            MESSAGE_TYPE.CLASSIFICATION, Labels, ""),
                    Message(messageId \o "_selection_prompt", SENDER.BOT, MESSAGE_TYPE.TEXT,
                            IF sending.questionText # Null
                            THEN "Vui long chon loai thuc vat de tiep tuc voi cau hoi"
                            ELSE "Vui long chon loai thuc vat de tiep tuc", "")>>
             [] outcome = "ood" ->
                  <<Message(messageId \o "_ood_response", SENDER.BOT, MESSAGE_TYPE.TEXT,
                            "Xin loi, loai thuc vat nay khong nam trong co so du lieu", "")>>
             [] outcome \in {"empty", "missing"} ->
                  <<Message(messageId \o "_no_results", SENDER.BOT, MESSAGE_TYPE.TEXT,
                            "Khong tim thay loai thuc vat nao phu hop", "")>>
             [] OTHER ->
                  <<Message(messageId \o "_error", SENDER.BOT, MESSAGE_TYPE.TEXT,
                            text, "error")>>
     IN /\ messages' = Without(messages, messageId \o "_processing") \o
                        AllAt(appended, now')
        /\ error' = IF failed THEN text ELSE error
  /\ classifications' = IF outcome = "results" THEN Labels ELSE classifications
  /\ showClassificationDialog' = OpenDialog(outcome)
  /\ pendingQuestion' = Discard(outcome)
  /\ classificationLoading' = FALSE
  /\ isLoading' = FALSE
  /\ imageFiles' = <<>>
  /\ sending' = [sending EXCEPT !.pc = "done"]
  /\ requests' = Answered(sending.request, outcome)
  /\ UNCHANGED <<sessionId, inputMessage, selectedPlant, timers, asking,
                 storeVars, coordVars, hashVars, netVars>>

\* what /api/qa can answer: an answer, an object whose answer is empty or
\* missing ("empty"), a status that is not 2xx ("http"); or the fetch rejects
QaOutcomes == {"answer", "empty", "http", "reject"}

\* the message the three Q&A handlers append when their fetch is answered
QaMessage(messageId, outcome) ==
  IF outcome \in Failures
  THEN Message(messageId \o "_error", SENDER.BOT, MESSAGE_TYPE.TEXT,
               "Loi khi xu ly cau hoi: " \o ErrMessage("/api/qa", outcome), "error")
  ELSE Message(messageId \o "_answer", SENDER.BOT, MESSAGE_TYPE.TEXT,
               IF outcome = "answer" THEN "answer"
               ELSE "Xin loi, toi khong co thong tin de tra loi cau hoi nay", "")

\* handleTextOnlyQuestion after `await fetch`: the response is ok and its body
\* is awaited
QaResponse ==
  /\ sending.pc = "qa"
  /\ sending' = [sending EXCEPT !.pc = "qaBody"]
  /\ UNCHANGED <<messages, sessionId, inputMessage, imageFiles, isLoading, error,
                 classifications, showClassificationDialog, selectedPlant,
                 classificationLoading, pendingQuestion, timers, asking, requests,
                 cacheVars, coordVars, hashVars, netVars>>

\* the rest of handleTextOnlyQuestion, then the finally block of
\* handleSendMessage: after `await fetch` when it rejects or the response is
\* not ok, after `await response.json()` otherwise
QaResume(outcome) ==
  /\ sending.pc = IF outcome \in Failures THEN "qa" ELSE "qaBody"
  /\ Reading(0)
  /\ outcome \in QaOutcomes
  /\ messages' = Append(Without(messages, sending.messageId \o "_processing"),
                        At(QaMessage(sending.messageId, outcome), now'))
  /\ isLoading' = FALSE
  /\ imageFiles' = <<>>
  /\ sending' = [sending EXCEPT !.pc = "done"]
  /\ requests' = Answered(sending.request, outcome)
  /\ UNCHANGED <<sessionId, inputMessage, error, classifications, showClassificationDialog,
                 selectedPlant, classificationLoading, pendingQuestion, timers, asking,
                 storeVars, coordVars, hashVars, netVars>>

\* a callback that asks about the plant selected before
Timer_Selected(messageId, plantLabel, question) ==
  [messageId |-> messageId, plantLabel |-> selectedPlant, question |-> question,
   selection |-> SelectionCount + 1, request |-> 0, due |-> now' + 100, body |-> FALSE]

\* the callback handlePlantSelection gives to setTimeout, with the values it
\* closes over: () => handleQuestionWithSelectedPlant(messageId, plantLabel, question)
Timer(messageId, plantLabel, question) ==
  [messageId |-> messageId, plantLabel |-> plantLabel, question |-> question,
   selection |-> SelectionCount + 1, request |-> 0, due |-> now' + 100, body |-> FALSE]

\* handlePlantSelection(plantLabel, messageId), from a card of the dialog or
\* from a card of a classification message in the chat
handlePlantSelection(plantLabel, messageId) ==
  /\ Reading(0)
  /\ \/ messageId = DialogId /\ showClassificationDialog /\ plantLabel \in classifications
     \/ messageId \in Cards(plantLabel) /\ ~showClassificationDialog
  /\ SelectionCount < MaxSelections
  /\ pendingQuestion # Null => Cardinality(timers \cup asking) < MaxPending
  /\ selectedPlant' = plantLabel
  /\ showClassificationDialog' = FALSE
  /\ messages' = messages \o
       <<At(Message(messageId \o "_selection", SENDER.USER, MESSAGE_TYPE.SELECTION,
                    plantLabel, ""), now'),
         At(Message(messageId \o "_selection_confirmation", SENDER.BOT, MESSAGE_TYPE.TEXT,
                    "Ban da chon: " \o plantLabel, ""), now' + 1)>> \o
       (IF pendingQuestion # Null THEN <<>>
        ELSE <<At(Message(messageId \o "_ask_prompt", SENDER.BOT, MESSAGE_TYPE.TEXT,
                          "Ban co the dat cau hoi ve loai " \o plantLabel, ""),
                  now' + 2)>>)
  /\ pendingQuestion' = Null
  /\ timers' = IF pendingQuestion # Null
               THEN timers \cup {Timer(messageId, plantLabel, pendingQuestion)}
               ELSE timers
  /\ UNCHANGED <<sessionId, inputMessage, imageFiles, isLoading, error, classifications,
                 classificationLoading, sending, asking, requests,
                 storeVars, coordVars, hashVars, netVars>>

\* the setTimeout callback of handlePlantSelection: handleQuestionWithSelectedPlant
\* up to its fetch. It does not run before the time it was set for.
handleQuestionWithSelectedPlant(timer) ==
  /\ timer \in timers
  /\ Reading(timer.due)
  /\ timers' = timers \ {timer}
  /\ asking' = asking \cup {[timer EXCEPT !.request = Len(requests) + 1]}
  /\ messages' = Append(messages,
       At(Message(timer.messageId \o "_processing", SENDER.BOT, MESSAGE_TYPE.TEXT,
                  "Dang tra loi cau hoi cua ban", "processing"), now'))
  /\ requests' = Append(requests,
       Request("handleQuestionWithSelectedPlant", timer.messageId, "/api/qa",
               [label |-> timer.plantLabel, question |-> timer.question,
                session_id |-> sessionId]))
  /\ UNCHANGED <<sessionId, inputMessage, imageFiles, isLoading, error, classifications,
                 showClassificationDialog, selectedPlant, classificationLoading,
                 pendingQuestion, sending, storeVars, coordVars, hashVars, netVars>>

\* handleQuestionWithSelectedPlant after `await fetch`: the response is ok
\* and its body is awaited
AskResponse(call) ==
  /\ call \in asking
  /\ ~call.body
  /\ asking' = (asking \ {call}) \cup {[call EXCEPT !.body = TRUE]}
  /\ UNCHANGED <<messages, sessionId, inputMessage, imageFiles, isLoading, error,
                 classifications, showClassificationDialog, selectedPlant,
                 classificationLoading, pendingQuestion, sending, timers, requests,
                 cacheVars, coordVars, hashVars, netVars>>

\* the rest of handleQuestionWithSelectedPlant: after `await fetch` when it
\* rejects or the response is not ok, after `await response.json()` otherwise
AskResume(call, outcome) ==
  /\ call \in asking
  /\ call.body = (outcome \notin Failures)
  /\ Reading(0)
  /\ asking' = asking \ {call}
  /\ outcome \in QaOutcomes
  /\ messages' = Append(Without(messages, call.messageId \o "_processing"),
                        At(QaMessage(call.messageId, outcome), now'))
  /\ requests' = Answered(call.request, outcome)
  /\ UNCHANGED <<sessionId, inputMessage, imageFiles, isLoading, error, classifications,
                 showClassificationDialog, selectedPlant, classificationLoading,
                 pendingQuestion, sending, timers, storeVars, coordVars, hashVars, netVars>>

\* onClose of the selection dialog and its cancel button
closeClassificationDialog ==
  /\ showClassificationDialog
  /\ showClassificationDialog' = FALSE
  /\ UNCHANGED <<messages, sessionId, inputMessage, imageFiles, isLoading, error,
                 classifications, selectedPlant, classificationLoading, pendingQuestion,
                 sending, timers, asking, requests, cacheVars, coordVars, hashVars, netVars>>

\* handleDismissError
handleDismissError ==
  /\ error # Null
  /\ ~showClassificationDialog
  /\ error' = Null
  /\ UNCHANGED <<messages, sessionId, inputMessage, imageFiles, isLoading, classifications,
                 showClassificationDialog, selectedPlant, classificationLoading,
                 pendingQuestion, sending, timers, asking, requests,
                 cacheVars, coordVars, hashVars, netVars>>

\* the ids the cards of the chat and of the dialog pass to handlePlantSelection
SelectionIds == {CardId(MessageId(n)) : n \in 1..MaxSends} \cup {DialogId}

ChatNext ==
  \/ \E text \in Texts : setInputMessage(text)
  \/ \E valid \in BOOLEAN : handleFileSelect(valid)
  \/ handlePaste
  \/ \E index \in 1..MaxImages : removeImage(index)
  \/ clearAllImages
  \/ handleSendMessage
  \/ ClassifyResponse
  \/ QaResponse
  \/ \E call \in asking : AskResponse(call)
  \/ \E outcome \in ClassifyOutcomes : ClassifyResume(outcome)
  \/ \E outcome \in QaOutcomes : QaResume(outcome)
  \/ \E plantLabel \in Labels, messageId \in SelectionIds :
       handlePlantSelection(plantLabel, messageId)
  \/ \E timer \in timers : handleQuestionWithSelectedPlant(timer)
  \/ \E call \in asking, outcome \in QaOutcomes : AskResume(call, outcome)
  \/ closeClassificationDialog
  \/ handleDismissError

\* what runs without the network: the callbacks given to setTimeout. The
\* fetches of the component have no timer and no signal: an answer of the
\* server, or the body of a response, may never come
ChatFairness ==
  WF_<<cacheVars, coordVars, chatVars, hashVars, netVars>>(
    \E timer \in timers : handleQuestionWithSelectedPlant(timer))

\* ----------------------------------------------------------- useNetwork.js
MaxNetCalls == 2
MaxNetEvents == 3
MaxNetTicks == 4

NetCallIds == 1..MaxNetCalls

\* String.prototype.includes
includes(str, sub) ==
  \E i \in 1..(Len(str) - Len(sub) + 1) : SubSeq(str, i, i + Len(sub) - 1) = sub

\* a thrown Error with its message, and a thrown value that is no Error
Error(message) == [type |-> "Error", v |-> message]
TypeError == [type |-> "TypeError", v |-> "Cannot read properties of undefined"]

\* the errorMessage argument of withNetworkCheck: omitted ({}), or given
ErrorMessages == {{}, {"offline!"}}

\* errorMessage = 'Ban dang ngoai tuyen.' when the argument is omitted
ErrorMessageOf(errorMessage) ==
  IF errorMessage = {} THEN "Ban dang ngoai tuyen." ELSE CHOOSE m \in errorMessage : TRUE

\* how the promise of a callback settles: it resolves with a value, rejects
\* with an Error, or rejects with a value that has no message (a string, as
\* the reason given to AbortController.abort)
CallbackOutcomes ==
  {[type |-> "value", v |-> "result"]}
    \cup {Error(m) : m \in {"Failed to fetch", "network down", "Network Error", "boom"}}
    \cup {[type |-> "string", v |-> "cancelled"]}

\* the answers to the probe of tryReconnect: a response that is ok or not,
\* a rejection, the abort of AbortSignal.timeout(3000)
ProbeOutcomes == {"ok", "notok", "reject", "timeout"}

\* a call: which function (op), where it is (pc), its errorMessage, the time
\* the probe of tryReconnect was issued (at), and its history: whether the callback was invoked, how
\* the callback settled (outcome) and how the call settled (settled)
NoNetCall ==
  [op |-> "none", pc |-> "none", errorMessage |-> {}, at |-> 0,
   invoked |-> FALSE, outcome |-> {}, settled |-> {}]

Returned(v) == [how |-> "returned", v |-> v]
Threw(e) == [how |-> "threw", v |-> e]

\* const [isOnline, ...] = useState(navigator.onLine), with no call made
NetIdle ==
  /\ isOnline = navigatorOnLine
  /\ netEvents = <<>>
  /\ wasOffline = FALSE
  /\ reconnecting = FALSE
  /\ netTimers = EmptyBag
  /\ netCalls = [c \in NetCallIds |-> NoNetCall]
  /\ nNetCalls = 0
  /\ netHandled = <<>>

\* the hook is mounted in a page that is not used: the browser is online
NetUnused == navigatorOnLine = TRUE /\ NetIdle

NetInit == navigatorOnLine \in BOOLEAN /\ NetIdle

\* a second passes
NetTick ==
  /\ now < 1000 * MaxNetTicks
  /\ now' = now + 1000
  /\ UNCHANGED <<storeVars, coordVars, chatVars, hashVars, netVars>>

\* the browser's connectivity changes: navigator.onLine takes its new value
\* and a task is queued that fires 'online' or 'offline' on window (at most
\* MaxNetEvents changes are followed)
ConnectivityChange ==
  /\ Len(netHandled) + Len(netEvents) < MaxNetEvents
  /\ navigatorOnLine' = ~navigatorOnLine
  /\ netEvents' = Append(netEvents, IF navigatorOnLine THEN "offline" ELSE "online")
  /\ UNCHANGED <<isOnline, wasOffline, reconnecting, netTimers, netCalls, nNetCalls,
                 netHandled, cacheVars, coordVars, chatVars, hashVars>>

\* the listener of 'online'
handleOnline ==
  /\ netEvents # <<>> /\ Head(netEvents) = "online"
  /\ netEvents' = Tail(netEvents)
  /\ netHandled' = Append(netHandled, "online")
  /\ isOnline' = TRUE
  /\ IF ~navigatorOnLine
     THEN /\ wasOffline' = TRUE
          /\ reconnecting' = TRUE
          /\ netTimers' = netTimers (+) SetToBag({[due |-> now + 3000]})
     ELSE UNCHANGED <<wasOffline, reconnecting, netTimers>>
  /\ UNCHANGED <<navigatorOnLine, netCalls, nNetCalls,
                 cacheVars, coordVars, chatVars, hashVars>>

\* the listener of 'offline'
handleOffline ==
  /\ netEvents # <<>> /\ Head(netEvents) = "offline"
  /\ netEvents' = Tail(netEvents)
  /\ netHandled' = Append(netHandled, "offline")
  /\ isOnline' = FALSE
  /\ UNCHANGED <<navigatorOnLine, wasOffline, reconnecting, netTimers, netCalls, nNetCalls,
                 cacheVars, coordVars, chatVars, hashVars>>

\* a callback of setTimeout runs, at its due time or later
NetTimer(timer) ==
  /\ BagIn(timer, netTimers)
  /\ now >= timer.due
  /\ netTimers' = netTimers (-) SetToBag({timer})
  /\ reconnecting' = FALSE
  /\ wasOffline' = FALSE
  /\ UNCHANGED <<navigatorOnLine, netEvents, isOnline, netCalls, nNetCalls, netHandled,
                 cacheVars, coordVars, chatVars, hashVars>>

\* withNetworkCheck(callback, errorMessage), up to `await callback()`
withNetworkCheck(c, errorMessage) ==
  /\ c = nNetCalls + 1 /\ c \in NetCallIds
  /\ nNetCalls' = c
  /\ LET call == [NoNetCall EXCEPT !.op = "withNetworkCheck",
                                   !.errorMessage = errorMessage]
     IN IF navigatorOnLine
        THEN /\ netCalls' = [netCalls EXCEPT ![c] =
                               [call EXCEPT !.pc = "await", !.invoked = TRUE]]
             /\ UNCHANGED isOnline
        ELSE /\ isOnline' = FALSE
             /\ netCalls' = [netCalls EXCEPT ![c] =
                               [call EXCEPT !.pc = "done",
                                  !.settled = {Threw(Error(ErrorMessageOf(errorMessage)))}]]
  /\ UNCHANGED <<navigatorOnLine, netEvents, wasOffline, reconnecting, netTimers, netHandled,
                 cacheVars, coordVars, chatVars, hashVars>>

\* the continuation after `await callback()`: the result is returned; a
\* rejection runs the catch block, where error.message.includes throws a
\* TypeError when the value thrown has no message
CheckResume(c, outcome) ==
  /\ netCalls[c].op = "withNetworkCheck" /\ netCalls[c].pc = "await"
  /\ outcome \in CallbackOutcomes
  /\ LET call == [netCalls[c] EXCEPT !.pc = "done", !.outcome = {outcome}]
     IN CASE outcome.type = "value" ->
               /\ netCalls' = [netCalls EXCEPT ![c] =
                                 [call EXCEPT !.settled = {Returned(outcome.v)}]]
               /\ UNCHANGED isOnline
          [] outcome.type = "Error" ->
               /\ netCalls' = [netCalls EXCEPT ![c] =
                                 [call EXCEPT !.settled = {Threw(outcome)}]]
               /\ isOnline' = IF includes(outcome.v, "network") \/ includes(outcome.v, "fetch")
                              THEN FALSE ELSE isOnline
          [] OTHER ->
               /\ netCalls' = [netCalls EXCEPT ![c] =
                                 [call EXCEPT !.settled = {Threw(TypeError)}]]
               /\ UNCHANGED isOnline
  /\ UNCHANGED <<navigatorOnLine, netEvents, wasOffline, reconnecting, netTimers, nNetCalls,
                 netHandled, cacheVars, coordVars, chatVars, hashVars>>

\* tryReconnect(), up to `await fetch('/favicon.ico', ...)`
tryReconnect(c) ==
  /\ c = nNetCalls + 1 /\ c \in NetCallIds
  /\ nNetCalls' = c
  /\ LET call == [NoNetCall EXCEPT !.op = "tryReconnect", !.at = now]
     IN IF ~navigatorOnLine
        THEN /\ reconnecting' = TRUE
             /\ netCalls' = [netCalls EXCEPT ![c] = [call EXCEPT !.pc = "await"]]
        ELSE /\ netCalls' = [netCalls EXCEPT ![c] =
                               [call EXCEPT !.pc = "done", !.settled = {Returned(TRUE)}]]
             /\ UNCHANGED reconnecting
  /\ UNCHANGED <<navigatorOnLine, netEvents, isOnline, wasOffline, netTimers, netHandled,
                 cacheVars, coordVars, chatVars, hashVars>>

\* the continuation after the probe of tryReconnect; the signal aborts the
\* probe 3 seconds after it was issued
ProbeResume(c, outcome) ==
  /\ netCalls[c].op = "tryReconnect" /\ netCalls[c].pc = "await"
  /\ outcome \in ProbeOutcomes
  /\ IF outcome = "timeout" THEN now >= netCalls[c].at + 3000 ELSE now <= netCalls[c].at + 3000
  /\ LET call == [netCalls[c] EXCEPT !.pc = "done", !.outcome = {outcome}]
     IN IF outcome = "ok"
        THEN /\ isOnline' = TRUE
             /\ netTimers' = netTimers (+) SetToBag({[due |-> now + 1000]})
             /\ netCalls' = [netCalls EXCEPT ![c] = [call EXCEPT !.settled = {Returned(TRUE)}]]
             /\ UNCHANGED reconnecting
        ELSE /\ reconnecting' = FALSE
             /\ netCalls' = [netCalls EXCEPT ![c] = [call EXCEPT !.settled = {Returned(FALSE)}]]
             /\ UNCHANGED <<isOnline, netTimers>>
  /\ UNCHANGED <<navigatorOnLine, netEvents, wasOffline, nNetCalls, netHandled,
                 cacheVars, coordVars, chatVars, hashVars>>

NetNext ==
  \/ NetTick
  \/ ConnectivityChange
  \/ handleOnline
  \/ handleOffline
  \/ \E timer \in BagToSet(netTimers) : NetTimer(timer)
  \/ \E c \in NetCallIds, errorMessage \in ErrorMessages : withNetworkCheck(c, errorMessage)
  \/ \E c \in NetCallIds, outcome \in CallbackOutcomes : CheckResume(c, outcome)
  \/ \E c \in NetCallIds : tryReconnect(c)
  \/ \E c \in NetCallIds, outcome \in ProbeOutcomes : ProbeResume(c, outcome)

\* ------------------------------------------------------------ specifications
vars == <<cacheVars, coordVars, chatVars, hashVars, netVars>>

\* the cache service on its own
Init == CacheInit /\ CoordIdle /\ ChatInit /\ HashIdle /\ NetUnused
Next == CacheNext
Spec == Init /\ [][Next]_vars

\* the cache service with concurrent callers
ConcurrentSpec == Init /\ [][ConcurrentNext]_vars

\* one hook instance over the cache service
HookInit == CacheInit /\ CoordInit /\ ChatInit /\ HashIdle /\ NetUnused
HookSpec == HookInit /\ [][CoordNext]_vars

\* the hook instance with its timers, rejections and cache calls scheduled
HookLiveSpec == HookInit /\ [][CoordNext]_vars /\ CoordFairness

\* the chat component
ChatSpecInit == Init /\ idbAvailable = TRUE
ChatSpec == ChatSpecInit /\ [][ChatNext]_vars

\* the chat component when every request is answered and every timer runs
ChatLiveSpec == ChatSpecInit /\ [][ChatNext]_vars /\ ChatFairness

\* generateHash called on one string, over time and page reloads
HashSpecInit == CacheInit /\ CoordIdle /\ ChatInit /\ HashIdle /\ NetUnused
HashSpec == HashSpecInit /\ [][HashNext]_vars

\* the hook useNetwork and the browser's connectivity
NetSpecInit == CacheInit /\ CoordIdle /\ ChatInit /\ HashIdle /\ NetInit /\ idbAvailable = TRUE
NetSpec == NetSpecInit /\ [][NetNext]_vars

\* ------------------------------------------------------ claims on the cache

\* the default TTL the specification gives each namespace (24 h, 30 min, 1 h)
NamespaceTTL(cacheName) ==
  CASE cacheName = CACHE_NAMES.PLANTS -> 24 * 60 * 60 * 1000
    [] cacheName = CACHE_NAMES.CLASSIFICATIONS -> 30 * 60 * 1000
    [] cacheName = CACHE_NAMES.QA -> 60 * 60 * 1000

\* the time to live the specification gives a put: the override when one was
\* passed, the namespace default otherwise
StatedTTL(cacheName, p) ==
  IF p.expiryTime # {} THEN CHOOSE x \in p.expiryTime : TRUE ELSE NamespaceTTL(cacheName)

\* C1: a set without TTL override that returned true, followed at once (same
\* clock reading, no put in between) by a get of the same namespace and key,
\* makes the get return exactly the value that was set.
C1_SetThenGet ==
  ret.op = "get" =>
    \A p \in ret.seen :
      (p.acked /\ p.expiryTime = {} /\ ret.at = p.at) => ret.result = p.value

\* C1, the case: a get returned right after an acknowledged set without override
C1_Case ==
  /\ ret.op = "get"
  /\ \E p \in ret.seen : p.acked /\ p.expiryTime = {} /\ ret.at = p.at

\* C6: a get never returns the value of a record whose expiry is less than or
\* equal to the clock reading of the get.
C6_NeverReturnsExpired ==
  ret.op = "get" => \A r \in ret.rec : r.expiry <= ret.at => ret.result = Null

\* C6, the case: a get has read a record that was expired at its clock reading
C6_ExpiredRead ==
  /\ ret.op = "get"
  /\ \E r \in ret.rec : r.expiry <= ret.at

\* C7: every put stores expiresAt = now + override when an override is given,
\* and now + the namespace default TTL (24 h / 30 min / 1 h) otherwise.
C7_ExpiresAt ==
  \A c \in CacheNameValues : \A k \in Keys : \A p \in lastPut[c][k] :
    p.expiry = p.at + StatedTTL(c, p)

\* C8: a value stays retrievable until its TTL has elapsed; a get after the TTL
\* has elapsed returns absent and leaves no stored record for the key.
C8_RetrievableUntilTTL ==
  ret.op = "get" =>
    \A p \in ret.seen :
      /\ ret.at < p.at + StatedTTL(ret.cacheName, p) => ret.result = p.value
      /\ ret.at >= p.at + StatedTTL(ret.cacheName, p) =>
           /\ ret.result = Null
           /\ StoreGet(db[ret.cacheName], ret.key) = {}

\* C9: an entry written in an earlier page session whose TTL has not elapsed
\* is still returned by get after the reload and its startup sweep.
C9_SurvivesReload ==
  (ret.op = "get" /\ sweep = "done") =>
    \A p \in ret.seen :
      (p.old /\ ret.at < p.at + StatedTTL(ret.cacheName, p)) => ret.result = p.value

\* C17: every getCache / setCache call resolves, whatever the storage does
\* (open failure, request error, transaction error): a get with the value or
\* null, a set with true or null; the returned promise never rejects.
C17_NonThrowing == ret.result # Rejected

\* C19: each store holds at most one record per key; a stored record carries
\* the value and the expiry of the last put on its store and key; and a get
\* returns nothing but the value last put on its own store and key (never an
\* earlier value, never the value put under the same key in another store).
C19_LastWriteWins ==
  /\ \A c \in CacheNameValues : \A k \in Keys :
       /\ Cardinality(StoreGet(db[c], k)) <= 1
       /\ \A r \in StoreGet(db[c], k) :
            \E p \in lastPut[c][k] : r.value = p.value /\ r.expiry = p.expiry
  /\ (ret.op = "get" /\ ret.result # Null) => \E p \in ret.seen : ret.result = p.value

\* C19, the case: two different values have been set on one store and key,
\* and a get of that key has read a single record, the one of the second set
C19_Case ==
  /\ ret.op = "get"
  /\ \E p \in ret.seen :
       /\ p.acked /\ p.prev # {} /\ p.value \notin p.prev
       /\ ret.rec = {[key |-> ret.key, value |-> p.value, expiry |-> p.expiry]}

\* C19, the case of two stores: a get has read the record set on its store
\* while another store holds a different value under the same key
C19_TwoStores ==
  /\ ret.op = "get"
  /\ \E r \in ret.rec : \E c \in CacheNameValues \ {ret.cacheName} :
       \E r2 \in StoreGet(db[c], ret.key) : r2.value # r.value

\* the oldest transaction of store c is of this kind and runs in this step
Runs(c, kind) ==
  /\ txq[c] # <<>>
  /\ Head(txq[c]).kind = kind
  /\ sweep' = sweep
  /\ txq'[c] = Tail(txq[c])

\* the put that stored record r of store c, when it was made in this page
\* session (by a setCache concurrent with the sweep that module load started)
\* less than its time to live before the clock reading t
FreshPuts(c, r, t) ==
  {p \in lastPut[c][r.key] :
     /\ ~p.old /\ p.value = r.value /\ p.expiry = r.expiry
     /\ t < p.at + StatedTTL(c, p)}

\* C20: every transaction of a sweep leaves in its store exactly the records
\* whose expiry is later than the clock reading of the sweep: all records
\* with expiry <= now are removed and no record with expiry > now is, at every
\* sweep of a behaviour and whatever get or set was in progress when the
\* sweep was called or has committed since; and a record freshly written by
\* a set concurrent with the sweep is never removed by it.
C20_Sweep ==
  [][\A c \in CacheNameValues :
       Runs(c, "sweep") =>
         /\ db'[c] = {r \in db[c] : r.expiry > Head(txq[c]).at}
         /\ \A r \in db[c] : FreshPuts(c, r, Head(txq[c]).at) # {} => r \in db'[c]]_vars

\* ------------------------------------------------------ claims on the hooks

\* C2: once a second call has been issued on a hook instance, no continuation
\* of an earlier call changes the instance's result, error or loading.
C2_Supersession == staleApplied = {}

\* C3: of two calls with the same request key, the second issued while the
\* first had not resolved, at most one sends a request to the network.
C3_SingleFlight ==
  \A c1 \in CallIds, c2 \in CallIds :
    (c1 \in calls[c2].overlap /\ calls[c1].key = calls[c2].key) =>
      ~(calls[c1].requested /\ calls[c2].requested)

\* C10: a call without forceRefresh whose lookup found the key last written
\* less than the namespace TTL ago sends no request and ends returning the
\* written value; a call with forceRefresh never looks the key up.
C10_CacheFirst ==
  \A c \in CallIds :
    /\ (~calls[c].forceRefresh /\ calls[c].pc \notin {"none", "lookup", "lookupTx"}) =>
         \A p \in calls[c].stored :
           calls[c].lookupAt < p.at + NamespaceTTL(StoreOf(inst)) =>
             /\ ~calls[c].requested
             /\ calls[c].pc = "done"
             /\ calls[c].returned = p.value
    /\ calls[c].forceRefresh =>
         (calls[c].pc \notin {"lookup", "lookupTx"} /\ calls[c].stored = {})

\* str contains sub
Contains(str, sub) ==
  \E i \in 1..(Len(str) - Len(sub) + 1) : SubSeq(str, i, i + Len(sub) - 1) = sub

\* the network call of call c has succeeded: the response was ok, its body
\* passed the validation of the hook, and the call was not cancelled
NetworkSucceeded(c) ==
  calls[c].pc = "done" /\ calls[c].response = "valid" /\ calls[c].ended # "aborted"

\* C11: whenever the network call of a hook succeeds, the fetched value is
\* written to the cache under the request key of the call's lookup, set as
\* the result and returned by the call.
C11_WriteThrough ==
  \A c \in CallIds :
    NetworkSucceeded(c) =>
      /\ calls[c].put # {}
      /\ \A r \in calls[c].put : r.key = calls[c].key /\ r.value = calls[c].data
      /\ "result" \in DOMAIN calls[c].setters
      /\ calls[c].setters.result = calls[c].data
      /\ calls[c].returned = calls[c].data

\* C12: a call that ends with the AbortError of its aborted signal (after a
\* later call or the unmount aborted its controller) does not call setError
\* and leaves the error field as it was.
C12_AbortSilent ==
  \A c \in CallIds :
    calls[c].ended = "aborted" =>
      ("error" \notin DOMAIN calls[c].setters /\ "error" \notin calls[c].changed)

\* C12, the case: a call has ended with an AbortError
C12_Case == \E c \in CallIds : calls[c].ended = "aborted"

\* C13: the continuation of a call that ends with an AbortError changes none
\* of result, loading and error.
C13_AbortNoEffect ==
  \A c \in CallIds : calls[c].ended = "aborted" => calls[c].changed = {}

\* C14: no call of any hook waits for the answer to its request for ever: a
\* call that is awaiting its fetch leaves that await, by the answer, by the
\* AbortError or, when the server does not answer, by the timer raced with
\* the fetch.
C14_TimeoutRaced ==
  \A c \in CallIds : (calls[c].pc = "fetch") ~> (calls[c].pc # "fetch")

\* the calls that ended with a failure of the network call: a response that
\* is not ok, or a rejected fetch
NetworkFailed(c) ==
  calls[c].ended = "error" /\ calls[c].response \in {"http", "httpDetail", "reject"}

\* what every call that ended with a failure of the network call has done: it
\* set an error and loading = false, set no result and wrote nothing
FailureSurfaced(c) ==
  /\ "error" \in DOMAIN calls[c].setters
  /\ calls[c].setters.loading = FALSE
  /\ "result" \notin DOMAIN calls[c].setters
  /\ calls[c].put = {} /\ calls[c].cached = ""

\* C15: a call whose network call fails other than by cancellation
\* ends with loading false, nothing written, no result set, and the error set
\* to a message that carries the HTTP status whenever there was a response.
C15_FailureSurfaced ==
  \A c \in CallIds :
    NetworkFailed(c) =>
      /\ FailureSurfaced(c)
      /\ calls[c].response \in {"http", "httpDetail"} =>
           Contains(calls[c].setters.error, "HTTP 500")

\* C16: a call whose 2xx response does not match the contract (and that was
\* not cancelled) ends with an error; the malformed value is neither written
\* to the cache nor set as the result.
C16_MalformedRejected ==
  \A c \in CallIds :
    (calls[c].response = "malformed" /\ calls[c].pc = "done" /\ calls[c].ended # "aborted") =>
      /\ calls[c].ended = "error"
      /\ calls[c].put = {}
      /\ "result" \notin DOMAIN calls[c].setters

\* C18: without IndexedDB no lookup is a hit, no cache write is acknowledged or
\* stores a record, the sweep removes and adds nothing (the stores stay
\* empty), and every call that ends with the fetched value sets it as the
\* result and returns as it does after a cache miss.
C18_PassThrough ==
  ~idbAvailable =>
    /\ \A cacheName \in CacheNameValues :
         db[cacheName] = {} /\ \A k \in Keys : lastPut[cacheName][k] = {}
    /\ \A c \in CallIds :
         /\ calls[c].ended # "hit"
         /\ calls[c].put = {} /\ calls[c].cached \in {"", Null}
         /\ calls[c].ended = "ok" =>
              /\ calls[c].setters = [result |-> calls[c].data, loading |-> FALSE]
              /\ calls[c].returned = IF inst = "usePlantsData" THEN Null ELSE calls[c].data

\* C18, the case: without IndexedDB, after the sweep, a call that looked its
\* key up has ended with the fetched value
C18_Case ==
  /\ ~idbAvailable /\ sweep = "done"
  /\ \E c \in CallIds : calls[c].ended = "ok" /\ ~calls[c].forceRefresh

\* ------------------------------------------------------- claims on the chat

\* a submission whose trimmed text is "reset" in any letter case is received
ResetReceived ==
  /\ sending.pc \in {"none", "done"}
  /\ sending'.pc \in {"classify", "qa"}
  /\ sending'.reset

\* C4: the step that receives "reset" leaves selectedPlant and pendingQuestion
\* unset, the candidate list empty and the selection dialog closed, and no
\* continuation of a question that was in flight changes pendingQuestion, the
\* candidates or the dialog.
C4_ResetClears ==
  [][/\ ResetReceived =>
          /\ selectedPlant' = Null
          /\ pendingQuestion' = Null
          /\ classifications' = {}
          /\ ~showClassificationDialog'
     /\ asking' # asking =>
          UNCHANGED <<pendingQuestion, classifications, showClassificationDialog>>]_vars

\* the handling of a submission whose trimmed text is "reset" is completed
ResetHandled ==
  /\ sending.pc \in {"classify", "classifyBody", "qa", "qaBody"}
  /\ sending'.pc = "done"
  /\ sending'.reset

\* C5: a submission whose trimmed text is "reset" (any letter case), with or
\* without images, unsets selectedPlant when it is received, and when its
\* handling has completed pendingQuestion is unset, the selection dialog is
\* closed and no image is attached.
C5_ResetPrecedence ==
  [][/\ ResetReceived => selectedPlant' = Null
     /\ ResetHandled =>
          /\ pendingQuestion' = Null
          /\ ~showClassificationDialog'
          /\ imageFiles' = <<>>]_vars
\* ------------------------------------------------------- claims on the keys

\* C21: generateHash is a pure function of its input. After every step, any
\* two calls recorded for the same string have returned the same string,
\* whatever was hashed between them, whatever the time of the calls and the
\* page session they were made in; and a step of a call changes nothing but
\* the locals of the call and the record of its return.
C21_Pure ==
  [][/\ \A a \in DOMAIN hashed' : \A b \in DOMAIN hashed' :
          hashed'[a].str = hashed'[b].str => hashed'[a].returned = hashed'[b].returned
     /\ hashCall' # hashCall =>
          UNCHANGED <<hashSession, cacheVars, coordVars, chatVars, netVars>>]_vars

\* a string has been hashed before and after a reload, at different times,
\* and another string, with another hash, between the two calls
C21_Case ==
  /\ Len(hashed) = 3
  /\ hashed[1].str = hashed[3].str /\ Len(hashed[1].str) > 8
  /\ hashed[1].session # hashed[3].session
  /\ hashed[1].at # hashed[3].at
  /\ hashed[2].str = "a" /\ hashed[2].returned = "61"
  /\ hashed[3].returned = generateHash(hashed[3].str)

\* two calls of a hook are logically equal requests: the same label and
\* questions equal after trimming, or files with the same name, size and
\* modification time
LogicallyEqual(c1, c2) ==
  LET a == calls[c1].args
      b == calls[c2].args
  IN /\ a # <<>> /\ b # <<>>
     /\ IF inst = "useQA"
        THEN a[1] = b[1] /\ trim(a[2]) = trim(b[2])
        ELSE /\ a[1].name = b[1].name
             /\ a[1].size = b[1].size
             /\ a[1].lastModified = b[1].lastModified

\* logically equal requests look up the same request key
C22_SameKey ==
  \A c1 \in CallIds, c2 \in CallIds :
    LogicallyEqual(c1, c2) => calls[c1].key = calls[c2].key

\* C22: logically equal requests derive identical request keys, and of two
\* such requests made one after the other, the first having fetched its value
\* and had its cache write acknowledged, the second, whose lookup the storage
\* answers within the namespace TTL of that write, is a cache hit: it ends
\* with the value the first one wrote and sends no request.
C22_EqualRequestsHit ==
  \A c1 \in CallIds, c2 \in CallIds :
    (/\ c1 < c2 /\ LogicallyEqual(c1, c2)
     /\ c1 \notin calls[c2].overlap
     /\ calls[c1].ended = "ok" /\ calls[c1].cached = True
     /\ \E p \in calls[c2].stored :
          /\ p.value = calls[c1].data
          /\ calls[c2].lookupAt < p.at + NamespaceTTL(StoreOf(inst)))
    => /\ calls[c1].key = calls[c2].key
       /\ calls[c2].ended = "hit"
       /\ ~calls[c2].requested
       /\ calls[c2].returned = calls[c1].data

\* ---------------------------------------------- claims on the conversation

\* C23: the requests of the chat go through the cache: a classification or
\* Q&A request equal to one the component has made before, and that was
\* answered before the new one is submitted, is served from the cache and
\* not sent to the network again.
C23_ThroughCoordinator ==
  \A i \in DOMAIN requests, j \in DOMAIN requests :
    (/\ i < j
     /\ requests[i].from = "handleSendMessage"
     /\ requests[j].from = "handleSendMessage"
     /\ requests[i].status \notin {"sent"} \cup Failures)
    => ~(requests[i].url = requests[j].url /\ requests[i].body = requests[j].body)

\* the states of the conversation: a submission is being classified or
\* answered, a selected plant's question is being answered, the selection
\* dialog is open, or none of these
Classifying == isLoading /\ sending.pc \in {"classify", "classifyBody"}
AwaitingAnswer ==
  (isLoading /\ sending.pc \in {"qa", "qaBody"}) \/ timers # {} \/ asking # {}
AwaitingSelection == ~isLoading /\ showClassificationDialog
Idle == ~isLoading /\ ~classificationLoading /\ timers = {} /\ asking = {}
        /\ ~showClassificationDialog

\* the requests made by handler `from` in the flow of messageId
RequestsOf(log, from, messageId) ==
  {i \in DOMAIN log : log[i].from = from /\ log[i].messageId = messageId}

\* a text-only submission is made in Idle; its answer or failure arrives
SubmitText == Idle /\ sending'.pc = "qa" /\ sending.pc # "qa"
AnswerText == sending.pc \in {"qa", "qaBody"} /\ sending'.pc = "done"

\* C24: a text-only submission in Idle makes exactly one request, a POST
\* /api/qa whose body has the trimmed text as question, the session id, and
\* the selected plant as label when one is selected and no label field when
\* none is; when it is answered no other request has been made for the
\* submission, one Bot text message is appended in place of the processing
\* message, and the conversation is in Idle again.
C24_TextOnly ==
  [][/\ SubmitText =>
          /\ Len(requests') = Len(requests) + 1
          /\ SubSeq(requests', 1, Len(requests)) = requests
          /\ LET r == requests'[Len(requests')]
             IN /\ r.url = "/api/qa"
                /\ r.body.question = trim(inputMessage)
                /\ r.body.session_id = sessionId
                /\ selectedPlant # Null =>
                     "label" \in DOMAIN r.body /\ r.body.label = selectedPlant
                /\ selectedPlant = Null => "label" \notin DOMAIN r.body
     /\ AnswerText =>
          /\ Len(requests') = Len(requests)
          /\ Cardinality(RequestsOf(requests', "handleSendMessage", sending.messageId)) = 1
          /\ LET kept == Without(messages, sending.messageId \o "_processing")
                 last == messages'[Len(messages')]
             IN /\ Len(messages') = Len(kept) + 1
                /\ SubSeq(messages', 1, Len(kept)) = kept
                /\ last.sender = SENDER.BOT /\ last.type = MESSAGE_TYPE.TEXT
                /\ last.mark # "processing"
          /\ (timers = {} /\ asking = {} /\ ~showClassificationDialog) => Idle']_vars

\* a question sent with a plant selected has been answered, its answer is in
\* the chat and the conversation is in Idle
C24_Case ==
  /\ Idle
  /\ \E j \in DOMAIN requests :
       /\ requests[j].from = "handleSendMessage"
       /\ requests[j].url = "/api/qa"
       /\ requests[j].status = "answer"
       /\ "label" \in DOMAIN requests[j].body
       /\ requests[j].body.question = "hi"
       /\ \E m \in DOMAIN messages : messages[m].id = requests[j].messageId \o "_answer"

\* images and a text are submitted together; the classification is answered
SubmitBoth ==
  /\ sending.pc # "classify" /\ sending'.pc = "classify"
  /\ trim(inputMessage) # ""
AnswerClassify == sending.pc \in {"classify", "classifyBody"} /\ sending'.pc = "done"

\* the request a step makes, if it makes one
NewRequests == {requests'[i] : i \in (DOMAIN requests') \ (DOMAIN requests)}

\* C25: the submission of images with a text makes one request, a POST
\* /api/classify with all the attached images, and stores the trimmed text as
\* pendingQuestion; the answer of the classifier makes no request, and a
\* request for a pending question is only made once a plant has been selected
\* for it: the selection message of its flow is in the chat, with its label.
C25_ClassifyFirst ==
  [][/\ SubmitBoth =>
          /\ Len(requests') = Len(requests) + 1
          /\ SubSeq(requests', 1, Len(requests)) = requests
          /\ LET r == requests'[Len(requests')]
             IN r.url = "/api/classify" /\ r.body.files = imageFiles /\ imageFiles # <<>>
          /\ pendingQuestion' = trim(inputMessage)
     /\ AnswerClassify => Len(requests') = Len(requests)
     /\ \A r \in NewRequests :
          (r.url = "/api/qa" /\ r.from # "handleSendMessage") =>
            \E m \in DOMAIN messages :
              /\ messages[m].type = MESSAGE_TYPE.SELECTION
              /\ messages[m].id = r.messageId \o "_selection"
              /\ messages[m].content = r.body.label]_vars

\* the images have been classified, the candidates are shown and the text
\* waits as pendingQuestion: only the classification request has been made
C25_Case ==
  /\ sending.pc = "done" /\ sending.questionText = "hi"
  /\ pendingQuestion = "hi"
  /\ showClassificationDialog
  /\ Len(requests) = 1 /\ requests[1].url = "/api/classify"
  /\ requests[1].status = "results"

\* the messages a step keeps (all but the processing messages it removes) and
\* the messages it appends
KeptMessages ==
  SelectSeq(messages, LAMBDA m :
    m.mark # "processing" \/ \E i \in DOMAIN messages' : messages'[i] = m)
NewMessages ==
  {messages'[i] : i \in (DOMAIN messages') \ (DOMAIN KeptMessages)}

\* a step is the selection of plant label: it appends the selection message
Select(label) ==
  \E m \in NewMessages : m.type = MESSAGE_TYPE.SELECTION /\ m.content = label

\* C26: the selection of a plant sets selectedPlant to its label, closes the
\* selection dialog and appends the confirmation message for the label. With
\* a pending question it makes no request itself, clears pendingQuestion and
\* schedules one callback for that question and that label, and the callback
\* makes exactly one request, a POST /api/qa with that label, that question
\* and the session id; no other step makes a request for a selected plant.
\* Without a pending question it schedules nothing and makes no request,
\* appends the prompt to ask a question, and leaves the conversation in Idle.
C26_SelectPlant ==
  [][/\ \A label \in Labels : Select(label) =>
          /\ selectedPlant' = label
          /\ ~showClassificationDialog'
          /\ \E m \in NewMessages :
               /\ m.sender = SENDER.BOT
               /\ m.content = "Ban da chon: " \o label
          /\ Len(requests') = Len(requests)
          /\ pendingQuestion' = Null
          /\ IF pendingQuestion # Null
             THEN /\ Cardinality(timers' \ timers) = 1
                  /\ timers \subseteq timers'
                  /\ \A t \in timers' \ timers :
                       t.question = pendingQuestion /\ t.plantLabel = label
                  /\ Cardinality(NewMessages) = 2
             ELSE /\ timers' = timers
                  /\ Cardinality(NewMessages) = 3
                  /\ \E m \in NewMessages :
                       /\ m.sender = SENDER.BOT
                       /\ m.content = "Ban co the dat cau hoi ve loai " \o label
                  /\ (AwaitingSelection /\ timers = {} /\ asking = {}) => Idle'
     /\ \A t \in timers \ timers' :
          /\ Cardinality(timers \ timers') = 1
          /\ Len(requests') = Len(requests) + 1
          /\ SubSeq(requests', 1, Len(requests)) = requests
          /\ LET r == requests'[Len(requests')]
             IN /\ r.url = "/api/qa"
                /\ r.body = [label |-> t.plantLabel, question |-> t.question,
                             session_id |-> sessionId]
     /\ \A r \in NewRequests :
          r.from # "handleSendMessage" => Cardinality(timers \ timers') = 1]_vars

\* a candidate has been selected for a pending question, the selection is
\* confirmed in the chat and the question has been asked about the candidate
\* and answered
C26_Case ==
  /\ selectedPlant # Null
  /\ pendingQuestion = Null
  /\ \E i \in DOMAIN requests :
       /\ requests[i].from = "handleQuestionWithSelectedPlant"
       /\ requests[i].body.label = selectedPlant
       /\ requests[i].body.question = "hi"
       /\ requests[i].status = "answer"
  /\ \E m \in DOMAIN messages :
       /\ messages[m].type = MESSAGE_TYPE.TEXT
       /\ messages[m].content = "Ban da chon: " \o selectedPlant

\* the classifier answers the submission in progress with `outcome`
Classified(outcome) ==
  /\ AnswerClassify
  /\ requests'[sending.request].status = outcome

\* C27: when the classifier answers with candidates whose first label is not
\* the out-of-distribution label, a classification message with the
\* candidates is appended, the candidates are stored, the selection dialog
\* is open with no submission in progress, and selectedPlant is unchanged.
C27_Candidates ==
  [][Classified("results") =>
       /\ \E m \in NewMessages :
            /\ m.type = MESSAGE_TYPE.CLASSIFICATION
            /\ m.sender = SENDER.BOT
            /\ m.content = Labels
            /\ m.id = CardId(sending.messageId)
       /\ classifications' = Labels
       /\ OodLabel \notin classifications'
       /\ showClassificationDialog'
       /\ AwaitingSelection'
       /\ selectedPlant' = selectedPlant]_vars

\* the candidates of a submission are shown while a plant selected after an
\* earlier submission is still the selected one
C27_Case ==
  /\ AwaitingSelection
  /\ selectedPlant # Null
  /\ classifications = Labels
  /\ sending.messageId = MessageId(2)
  /\ \E m \in DOMAIN messages : messages[m].id = CardId(MessageId(2))

\* C28: when the classifier answers with a first result that has the
\* out-of-distribution label, with an empty list or with no list, the
\* processing message is replaced by exactly one Bot text message,
\* pendingQuestion is unset, the selection dialog is not opened, the
\* candidates and selectedPlant are unchanged, no request is made or
\* scheduled, and the conversation is in Idle.
C28_NoMatch ==
  [][\A outcome \in {"ood", "empty", "missing"} : Classified(outcome) =>
       /\ LET kept == Without(messages, sending.messageId \o "_processing")
              last == messages'[Len(messages')]
          IN /\ Len(messages') = Len(kept) + 1
             /\ SubSeq(messages', 1, Len(kept)) = kept
             /\ last.sender = SENDER.BOT /\ last.type = MESSAGE_TYPE.TEXT
             /\ last.mark = ""
             /\ last.id = sending.messageId \o
                   (IF outcome = "ood" THEN "_ood_response" ELSE "_no_results")
       /\ pendingQuestion' = Null
       /\ showClassificationDialog' = showClassificationDialog
       /\ classifications' = classifications
       /\ selectedPlant' = selectedPlant
       /\ Len(requests') = Len(requests)
       /\ timers' = timers
       /\ (timers = {} /\ asking = {} /\ ~showClassificationDialog) => Idle']_vars

\* images sent with a question were out of distribution: the explanation is
\* in the chat, the question is dropped and the conversation is in Idle
C28_Case ==
  /\ Idle
  /\ sending.pc = "done" /\ sending.questionText = "hi"
  /\ pendingQuestion = Null
  /\ requests[sending.request].status = "ood"
  /\ Len(requests) = 1
  /\ \E m \in DOMAIN messages : messages[m].id = sending.messageId \o "_ood_response"

\* request n is in flight; request n has been answered and its flow has
\* resolved: its processing message is gone and, for a submission, isLoading
\* and classificationLoading are false
InFlightRequest(n) == n \in DOMAIN requests /\ requests[n].status = "sent"
Resolved(n) ==
  /\ n \in DOMAIN requests /\ requests[n].status # "sent"
  /\ \A m \in DOMAIN messages : messages[m].id # requests[n].messageId \o "_processing"
  /\ requests[n].from = "handleSendMessage" => ~isLoading /\ ~classificationLoading

\* C29: every request of the component eventually resolves. Again and again
\* no request is in flight; the step that takes the answer of a request (a
\* result, a status that is not 2xx, or a rejection of the fetch) resolves
\* its flow: the processing message is removed and the loading flags of a
\* submission are false; a failed request has a Bot error message of its flow
\* in the chat, and a failed classification leaves pendingQuestion unset.
C29_Resolves ==
  /\ []<>(\A n \in DOMAIN requests : ~InFlightRequest(n))
  /\ [][\A n \in DOMAIN requests :
          (InFlightRequest(n) /\ ~InFlightRequest(n)') => Resolved(n)']_vars
  /\ [](\A n \in DOMAIN requests :
          requests[n].status \in Failures =>
            \E m \in DOMAIN messages :
              /\ messages[m].id = requests[n].messageId \o "_error"
              /\ messages[m].sender = SENDER.BOT
              /\ messages[m].mark = "error")
  /\ [][\A outcome \in Failures : Classified(outcome) => pendingQuestion' = Null]_vars

\* what the arrival of the answer to the Q&A flow of messageId does to the
\* chat: the messages of other ids are kept, in order, and one Bot text
\* message of the flow is appended, an answer or an error
AnswerAppended(messageId) ==
  LET kept == SelectSeq(messages, LAMBDA m : m.id # messageId \o "_processing")
      last == messages'[Len(messages')]
  IN /\ Len(messages') = Len(kept) + 1
     /\ SubSeq(messages', 1, Len(kept)) = kept
     /\ last.sender = SENDER.BOT /\ last.type = MESSAGE_TYPE.TEXT
     /\ last.id \in {messageId \o "_answer", messageId \o "_error"}
     /\ last.mark = "error" <=> last.id = messageId \o "_error"

\* the calls of handleQuestionWithSelectedPlant that end in this step
AnsweredCalls == {call \in asking : \A other \in asking' : other.request # call.request}

\* C30: the arrival of the answer to a Q&A request, or of its failure,
\* appends one Bot message, the answer or an error, in place of the flow's
\* processing message, and leaves selectedPlant, pendingQuestion, the
\* candidates, the selection dialog, the session id and the other requests
\* and messages as they are.
C30_AnswerFrame ==
  [][/\ AnswerText => AnswerAppended(sending.messageId)
     /\ \A call \in AnsweredCalls : AnswerAppended(call.messageId)
     /\ (AnswerText \/ AnsweredCalls # {}) =>
          /\ UNCHANGED <<selectedPlant, pendingQuestion, classifications, sessionId,
                         showClassificationDialog, timers>>
          /\ Len(requests') = Len(requests)]_vars

\* the question asked for a selected plant has been answered while a
\* question typed after the selection was waiting for its answer: the plant
\* is still selected and the candidates are still stored
C30_Case ==
  /\ selectedPlant # Null /\ classifications = Labels
  /\ isLoading /\ sending.pc = "qa"
  /\ asking = {} /\ timers = {}
  /\ \E n \in DOMAIN requests :
       /\ requests[n].from = "handleQuestionWithSelectedPlant"
       /\ requests[n].status \in {"answer", "reject"}
       /\ n < sending.request
  /\ \E m \in DOMAIN messages : messages[m].id = sending.messageId \o "_processing"

\* ---------------------------------------------- claims on the message list

\* the messages that are not processing placeholders
Settled(list) == SelectSeq(list, LAMBDA m : m.mark # "processing")

\* list is the beginning of longer
IsPrefix(list, longer) ==
  /\ Len(list) <= Len(longer)
  /\ SubSeq(longer, 1, Len(list)) = list

\* C31, as stated: the message list is append-only. Once a message is in the
\* list, no step removes or modifies it: every step leaves the list as it
\* was, or only adds messages at its end.
C31_AppendOnly == [][IsPrefix(messages, messages')]_vars

\* C31, amended: the message list is append-only but for the processing
\* placeholders. Every other message, once in the list, is never removed or
\* modified and keeps its place among the others, and messages are only added
\* at the end; a placeholder leaves the list only in the step in which a
\* request of its flow is answered.
C31_AppendOnly_Settled ==
  [][/\ IsPrefix(Settled(messages), Settled(messages'))
     /\ \A i \in DOMAIN messages :
          (\A j \in DOMAIN messages' : messages'[j] # messages[i]) =>
            /\ messages[i].mark = "processing"
            /\ \E n \in DOMAIN requests :
                 /\ requests[n].status = "sent"
                 /\ requests'[n].status # "sent"
                 /\ requests[n].messageId \o "_processing" = messages[i].id
     /\ \A j \in DOMAIN messages' :
          (\A i \in DOMAIN messages : messages[i] # messages'[j]) =>
            \A k \in DOMAIN messages' :
              (\E i \in DOMAIN messages : messages[i] = messages'[k]) => k < j]_vars

\* a request has been answered: its placeholder is gone, the messages of the
\* user before it and the answer after it are in the list
C31_Case ==
  \E n \in DOMAIN requests :
    /\ requests[n].status # "sent"
    /\ \A i \in DOMAIN messages :
         messages[i].id # requests[n].messageId \o "_processing"
    /\ \E i, j \in DOMAIN messages :
         /\ i < j
         /\ messages[i].sender = SENDER.USER
         /\ messages[j].sender = SENDER.BOT
         /\ messages[j].mark # "processing"
         /\ messages[j].timestamp > messages[i].timestamp

\* C32: in every reachable state the message list is ordered by timestamp:
\* the timestamp of each message is greater than or equal to the timestamp
\* of the message before it.
C32_OrderedByTimestamp ==
  \A i \in DOMAIN messages :
    i > 1 => messages[i].timestamp >= messages[i - 1].timestamp

\* ------------------------------------------------ further claims on the cache

\* C33: the lazy deletion of getCache never destroys newer data. When the
\* delete transaction of a getCache that has read an expired record runs
\* after a setCache of the same key has resolved true (the last call to
\* return: its put has committed since the getCache returned), the record of
\* that set, written less than its time to live ago, is still in the store
\* after the delete.
C33_LazyDeleteKeepsNewer ==
  [][\A c \in CacheNameValues :
       (/\ Runs(c, "delete")
        /\ ret.op = "set" /\ ret.result = True
        /\ ret.cacheName = c /\ ret.key = Head(txq[c]).key) =>
         \A r \in StoreGet(db[c], ret.key) :
           (\E p \in lastPut[c][r.key] :
              /\ p.acked /\ p.value = r.value /\ p.expiry = r.expiry
              /\ now < p.at + StatedTTL(c, p)) =>
             r \in db'[c]]_vars

\* --------------------------------------------- further claims on the chat

\* the submissions made so far, and whether submission i was a classification
\* of images sent together with the text question
Submissions == {i \in DOMAIN requests : requests[i].from = "handleSendMessage"}
SubmittedWith(i, question) ==
  /\ requests[i].url = "/api/classify"
  /\ \E m \in DOMAIN messages :
       /\ messages[m].id = requests[i].messageId \o "_text"
       /\ messages[m].content = question

\* C34: the question asked automatically after a plant is selected is the
\* text that was submitted together with the images of the most recent
\* classification. Whenever a selection schedules a question, the latest
\* submission is a classification and the question is the text sent with its
\* images: a question left pending by an earlier submission is not sent
\* after a later image-only or text-only submission.
C34_QuestionOfLatestSubmission ==
  [][\A timer \in timers' \ timers :
       \E i \in Submissions :
         /\ \A j \in Submissions : j <= i
         /\ SubmittedWith(i, timer.question)]_vars

\* C35: at most one classification or Q&A request of the chat is in flight at
\* any time, the question asked automatically after a selection included: no
\* submission and no selection starts a request while another is pending.
C35_OneInFlight ==
  Cardinality({n \in DOMAIN requests : InFlightRequest(n)}) <= 1

\* C37: in every reachable state the messages of the list have pairwise
\* distinct ids, also after several submissions and after a classification
\* card was clicked more than once.
C37_DistinctIds ==
  \A i \in DOMAIN messages, j \in DOMAIN messages :
    i # j => messages[i].id # messages[j].id

\* -------------------------------------------- further claims on the hooks

\* the (label, trimmed question) pair of a call of askQuestion
PairOf(c) == <<calls[c].args[1], trim(calls[c].args[2])>>

\* C36: two askQuestion requests whose (label, trimmed question) pairs differ
\* never share a cache key, so that a Q&A cache hit returns an answer that
\* was stored for the same pair.
C36_KeyPerPair ==
  inst = "useQA" =>
    \A c1 \in CallIds, c2 \in CallIds :
      (/\ calls[c1].args # <<>> /\ calls[c2].args # <<>>
       /\ calls[c1].key # "" /\ calls[c1].key = calls[c2].key)
      => PairOf(c1) = PairOf(c2)

\* the answers the Q&A cache should still hold for the key of call c when
\* its lookup ran: those stored less than CACHE_EXPIRY.QA before
CachedAnswers(c) ==
  {p \in calls[c].stored :
     IsTruthy(p.value) /\ p.at + CACHE_EXPIRY.QA > calls[c].lookupAt}

\* C38: useQA through an offline period. An askQuestion that ends with the
\* offline error had no cached answer for its pair (a cached pair is
\* answered from the cache, with no error), it has set the offline error and
\* loading false and has sent no request; an askQuestion with an empty label
\* or a blank question sets the validation error and makes neither a cache
\* lookup nor a request.
C38_Offline ==
  inst = "useQA" =>
    \A c \in CallIds :
      calls[c].pc = "done" =>
        /\ calls[c].ended = "offline" =>
              /\ CachedAnswers(c) = {}
              /\ ~calls[c].requested
              /\ calls[c].setters =
                   [error |-> ErrorText("Ban dang ngoai tuyen."), loading |-> FALSE]
        /\ calls[c].ended = "hit" =>
              /\ "error" \notin DOMAIN calls[c].setters
              /\ ~calls[c].requested
              /\ \E p \in CachedAnswers(c) : calls[c].returned = p.value
        /\ calls[c].ended = "rejected" =>
              /\ calls[c].key = "" /\ calls[c].stored = {} /\ calls[c].lookupAt = 0
              /\ ~calls[c].requested
              /\ calls[c].setters = [error |-> "Both label and question are required"]

\* ----------------------------------------------------- claims on useNetwork

\* the step is the listener of 'online' handling an 'online' event that
\* follows a handled 'offline' event
OnlineAfterOffline ==
  /\ netHandled # <<>>
  /\ netHandled[Len(netHandled)] = "offline"
  /\ netHandled' = Append(netHandled, "online")

\* C39: when connectivity returns after an offline period (an 'offline' event
\* followed by an 'online' event), the listener sets isOnline, wasOffline and
\* reconnecting to true and schedules, for 3 seconds later, the callback
\* that sets wasOffline and reconnecting back to false; that callback does
\* not run before it is due.
C39_Reconnect ==
  /\ [][OnlineAfterOffline =>
          /\ isOnline' /\ wasOffline' /\ reconnecting'
          /\ CopiesIn([due |-> now + 3000], netTimers') =
               CopiesIn([due |-> now + 3000], netTimers) + 1]_vars
  /\ [][\A timer \in {t \in BagToSet(netTimers) :
                         CopiesIn(t, netTimers') < CopiesIn(t, netTimers)} :
          now >= timer.due /\ ~wasOffline' /\ ~reconnecting']_vars

\* the error message mentions 'network' or 'fetch'
Mentions(outcome) ==
  /\ outcome.type = "Error"
  /\ includes(outcome.v, "network") \/ includes(outcome.v, "fetch")

\* call c of withNetworkCheck settles in this step
Settles(c) ==
  /\ netCalls'[c].op = "withNetworkCheck"
  /\ netCalls[c].pc # "done" /\ netCalls'[c].pc = "done"

\* C40: withNetworkCheck invokes the callback only when navigator.onLine is
\* true. A call made offline never invokes the callback, sets isOnline to
\* false and rejects with an Error of the given offline message; a call made
\* online returns the callback's result unchanged or rethrows what the
\* callback threw unchanged, and sets isOnline to false only if the error
\* message mentions 'network' or 'fetch'.
C40_NetworkCheck ==
  /\ [][\A c \in NetCallIds :
          (~netCalls[c].invoked /\ netCalls'[c].invoked) => navigatorOnLine]_vars
  /\ [][\A c \in NetCallIds :
          Settles(c) =>
            IF ~netCalls'[c].invoked
            THEN /\ ~navigatorOnLine /\ ~isOnline'
                 /\ \E s \in netCalls'[c].settled :
                      /\ s.how = "threw" /\ s.v.type = "Error"
                      /\ s.v.v = ErrorMessageOf(netCalls'[c].errorMessage)
            ELSE \E o \in netCalls'[c].outcome, s \in netCalls'[c].settled :
                   /\ IF o.type = "value"
                      THEN s.how = "returned" /\ s.v = o.v
                      ELSE s.how = "threw" /\ s.v = o
                   /\ (isOnline /\ ~isOnline') => Mentions(o)]_vars
====
